---- MODULE Spec2Model ----
(***************************************************************************)
(* Model of the authorization mediation contract of the GCP emulator       *)
(* control plane: the permission check every data-plane emulator runs      *)
(* before an operation (docs/TROUBLESHOOTING.md, "Implementation Pattern"),*)
(* the principal extraction it relies on, and the IAM emulator it calls.   *)
(***************************************************************************)
EXTENDS Integers, Sequences, FiniteSets, TLC

(***************************************************************************)
(* The second part models the command line tool: its configuration layer   *)
(* (internal/config), the policy file codec (internal/policy) and the      *)
(* policy validator.  Each part has its own specification; the variables   *)
(* of the other parts rest at their idle values.                           *)
(***************************************************************************)

(***************************************************************************)
(* Bounds of the model.                                                    *)
(***************************************************************************)
\* number of permission checks that may be in progress at the same time
MaxCalls == 2

Calls == 1..MaxCalls

(***************************************************************************)
(* Values of the program.                                                  *)
(***************************************************************************)
AuthModeOff == "off"
AuthModePermissive == "permissive"
AuthModeStrict == "strict"
AuthModes == {AuthModeOff, AuthModePermissive, AuthModeStrict}

\* The gRPC metadata of an inbound request under the key x-emulator-principal:
\* the list of values md.Get returns (empty when the header was not sent).
IncomingMetadata ==
    { <<>>,
      <<"user:alice@example.com">>,
      <<"serviceAccount:ci@test.iam.gserviceaccount.com">> }

Resources == {"projects/test-project/secrets/db-password"}
Permissions == {"secretmanager.secrets.get", "cloudkms.cryptoKeys.encrypt"}

\* Errors iamClient.CheckPermission can return beside nil: the authority is
\* unreachable, the caller's context was cancelled or timed out, or the call
\* failed with an error that is no connectivity error (the "return err" case
\* of line 1094), here the status of a request the authority rejected.
ErrNil == "nil"
ErrUnavailable == "Unavailable"
ErrDeadlineExceeded == "DeadlineExceeded"
ErrInvalidArgument == "InvalidArgument"

\* Return values of checkPermission beside a raw error handed through.
RetNil == "nil"
RetPermissionDenied == "PermissionDenied: Permission denied"
RetIAMUnavailable == "Internal: IAM unavailable"

NoRet == "none"
NoRequest == <<>>

VARIABLES
    iamMode,     \* Server.iamMode, fixed when the server is constructed
    iamUp,       \* whether the IAM emulator is reachable
    pc,          \* pc[c]: where check c stands
    ctx,         \* ctx[c]: the caller's context: metadata and cancellation
    args,        \* args[c]: the resource and permission arguments
    principal,   \* principal[c]: local variable principal
    allowed,     \* allowed[c]: local variable allowed
    err,         \* err[c]: local variable err
    ret,         \* ret[c]: the value checkPermission returned
    request,     \* request[c]: what the last CheckPermission call of c carried
    invoked      \* invoked[c]: CheckPermission calls made by check c

mediatorVars == <<iamMode, iamUp, pc, ctx, args, principal, allowed, err, ret,
                  request, invoked>>

VARIABLES
    osEnv,         \* the process environment, by viper key (GCP_EMULATOR_*)
    configFile,    \* the config.yaml found on the search path, or NoFile
    viperDefaults, \* viper's defaults, by key
    viperConfig,   \* viper's config-file layer, by key
    viperFlags,    \* values of the bound flags the command line changed
    cliPc,         \* where the gcp-emulator process stands
    loaded         \* what config.Load returned: [cfg, err]

configVars == <<osEnv, configFile, viperDefaults, viperConfig, viperFlags,
                cliPc, loaded>>

VARIABLES
    polPath,       \* the path policy.Load and policy.Save are called with
    polFile,       \* the bytes stored at that path
    savePc,        \* where the Save in progress stands
    saveDoc,       \* the document handed to Save
    saveErr,       \* the error Save returned
    savePrior,     \* the bytes stored at the path when Save was called
    loadRes,       \* what the last Load returned: [doc, err]
    loadData,      \* the bytes that Load read
    loadSaved,     \* the document of the completed Save that Load followed
    loadAt         \* where the Save to the path stood when Load read the file

policyVars == <<polPath, polFile, savePc, saveDoc, saveErr, savePrior,
                loadRes, loadData, loadSaved, loadAt>>

VARIABLES
    vcall,         \* the last call of a validator function: [fn, arg, out]
    result,        \* a ValidationResult that addError is called on
    added          \* the messages addError was called with, in order

validatorVars == <<vcall, result, added>>

VARIABLES
    outgoing,      \* the key-value pairs appended to the outgoing context
    sent,          \* the metadata of the call as the receiver got it
    extracted      \* the principal the receiver extracted

principalVars == <<outgoing, sent, extracted>>

VARIABLES
    startPc,       \* where the start command stands
    docker,        \* the docker-compose invocations so far, in order
    startOut       \* what the start command printed and returned

startVars == <<startPc, docker, startOut>>

VARIABLES
    heap,          \* the Policy objects Load allocated, in order
    snap           \* the content of each object when Load returned it

docVars == <<heap, snap>>

vars == <<mediatorVars, configVars, policyVars, validatorVars, principalVars,
          startVars, docVars>>

\* what each part of the program leaves alone
notMediator == <<configVars, policyVars, validatorVars, principalVars,
                 startVars, docVars>>
notConfig == <<mediatorVars, policyVars, validatorVars, principalVars,
               startVars, docVars>>
notPolicy == <<mediatorVars, configVars, validatorVars, principalVars,
               startVars, docVars>>
notValidator == <<mediatorVars, configVars, policyVars, principalVars,
                  startVars, docVars>>
notPrincipal == <<mediatorVars, configVars, policyVars, validatorVars,
                  startVars, docVars>>
notStart == <<mediatorVars, policyVars, validatorVars, principalVars, docVars>>
notDocs == <<mediatorVars, configVars, principalVars, startVars>>

(***************************************************************************)
(* Pure parts of the code.                                                 *)
(***************************************************************************)
\* principal extraction: the first value under x-emulator-principal, or ""
extractPrincipalFromContext(c) ==
    IF Len(c.md) > 0 THEN c.md[1] ELSE ""

\* error classification used by checkPermission (line 1088): an unreachable
\* authority and a cancelled or timed-out call are connectivity errors
isConnectivityError(e) ==
    e \in {ErrUnavailable, ErrDeadlineExceeded}

\* the early return taken for the wrong mode constant
skipsCheckPermissive(mode) ==
    mode = AuthModePermissive

\* line 1080: the early return of checkPermission
skipsCheck(mode) ==
    mode = AuthModeOff

\* the fail-open branch of line 1089 left out
interpretResultFailClosed(mode, a, e) ==
    IF e # ErrNil
    THEN IF isConnectivityError(e) THEN RetIAMUnavailable ELSE e
    ELSE IF ~a THEN RetPermissionDenied ELSE RetNil

\* a connectivity error reported with the code of an explicit denial
interpretResultDeniedOnError(mode, a, e) ==
    IF e # ErrNil
    THEN IF isConnectivityError(e)
         THEN IF mode = AuthModePermissive
              THEN RetNil
              ELSE RetPermissionDenied
         ELSE e
    ELSE IF ~a THEN RetPermissionDenied ELSE RetNil

\* the test of allowed made only in strict mode
interpretResultPermissiveOverrides(mode, a, e) ==
    IF e # ErrNil
    THEN IF isConnectivityError(e)
         THEN IF mode = AuthModePermissive
              THEN RetNil
              ELSE RetIAMUnavailable
         ELSE e
    ELSE IF ~a /\ mode = AuthModeStrict THEN RetPermissionDenied ELSE RetNil

\* the mode test of line 1089 inverted
interpretResultModesSwapped(mode, a, e) ==
    IF e # ErrNil
    THEN IF isConnectivityError(e)
         THEN IF mode = AuthModeStrict
              THEN RetNil
              ELSE RetIAMUnavailable
         ELSE e
    ELSE IF ~a THEN RetPermissionDenied ELSE RetNil

\* lines 1087-1101: what checkPermission returns for a CheckPermission result
interpretResult(mode, a, e) ==
    IF e # ErrNil
    THEN IF isConnectivityError(e)
         THEN IF mode = AuthModePermissive
              THEN RetNil
              ELSE RetIAMUnavailable
         ELSE e
    ELSE IF ~a
         THEN RetPermissionDenied
         ELSE RetNil

(***************************************************************************)
(* Values of the configuration layer (internal/config).                    *)
(***************************************************************************)
KeyIAMMode == "iam-mode"
KeyTrace == "trace"
KeyPullOnStart == "pull-on-start"
KeyPolicyFile == "policy-file"
KeyPortIAM == "port-iam"
KeyPortSecretManager == "port-secret-manager"
KeyPortKMS == "port-kms"
PortKeys == {KeyPortIAM, KeyPortSecretManager, KeyPortKMS}

DefaultPortIAM == 8080
DefaultPortSecretManager == 9090
DefaultPortKMS == 9091
MinPort == 1
MaxPort == 65535

\* mode strings a flag, the environment or the config file may carry
ModeInputs == {"off", "permissive", "strict", "invalid", "OFF", ""}
\* port numbers the config file may carry
PortInputs == {-1, 0, 1, 65535, 65536}

\* a layer of viper: a function from the keys it sets to their values
EmptyLayer == [k \in {} |-> ""]
ModeLayers == {EmptyLayer} \cup {[k \in {KeyIAMMode} |-> m] : m \in ModeInputs}
PortLayers == UNION {[K -> PortInputs] : K \in SUBSET PortKeys}
FlagLayers ==
    {m @@ b : m \in ModeLayers,
              b \in {EmptyLayer, [k \in {KeyPullOnStart} |-> TRUE]}}

\* the config file on disk: absent, unparseable, or a layer of settings
NoFile == [kind |-> "absent", keys |-> EmptyLayer]
BadFile == [kind |-> "malformed", keys |-> EmptyLayer]
ConfigFiles ==
    {NoFile, BadFile}
        \cup {[kind |-> "yaml", keys |-> m @@ q] : m \in ModeLayers, q \in PortLayers}

ErrInvalidMode == "invalid iam-mode"
ErrInvalidIAMPort == "invalid IAM port"
ErrInvalidSecretManagerPort == "invalid Secret Manager port"
ErrInvalidKMSPort == "invalid KMS port"
ErrReadConfig == "failed to read config file"

\* (*Config)(nil)
NoConfig == {}
NotLoaded == [cfg |-> NoConfig, err |-> ErrNil]

\* no gcp-emulator process is running
ConfigIdle ==
    /\ osEnv = EmptyLayer
    /\ configFile = NoFile
    /\ viperDefaults = EmptyLayer
    /\ viperConfig = EmptyLayer
    /\ viperFlags = EmptyLayer
    /\ cliPc = "none"
    /\ loaded = NotLoaded

(***************************************************************************)
(* Values of the policy codec (internal/policy/parser.go).                 *)
(***************************************************************************)
\* Paths, as sequences of characters.
PathJson == <<"p", ".", "j", "s", "o", "n">>
PathJsonUpper == <<"P", ".", "J", "S", "O", "N">>
PathYaml == <<"p", ".", "y", "a", "m", "l">>
PathYmlMixed == <<"p", ".", "Y", "m", "l">>
PathTxt == <<"p", ".", "t", "x", "t">>
PathNoExt == <<"p">>
PathDotInDir == <<"d", ".", "j", "s", "o", "n", "/", "p">>
Paths == {PathJson, PathJsonUpper, PathYaml, PathYmlMixed, PathTxt, PathNoExt,
          PathDotInDir}

ExtJson == <<".", "j", "s", "o", "n">>
ExtYaml == <<".", "y", "a", "m", "l">>
ExtYml == <<".", "y", "m", "l">>

\* Strings of a policy.  BadUTF8 stands for a Go string holding a byte that is
\* no valid UTF-8; CoercedUTF8 is that string with the byte replaced by U+FFFD.
BadUTF8 == "user:caf<0xE9>@example.com"
CoercedUTF8 == "user:caf<U+FFFD>@example.com"

NoCondition == {}
ZeroPolicy == [Roles |-> <<>>, Groups |-> <<>>, Projects |-> <<>>]

\* the policy of TestSaveYAML and TestSaveJSON
TestPolicy ==
    [ Roles |-> [r \in {"roles/custom.test"} |-> <<"secretmanager.secrets.get">>],
      Groups |-> [g \in {"testers"} |-> <<"user:test@example.com">>],
      Projects |->
          [p \in {"test-project"} |->
              << [Role |-> "roles/custom.test",
                  Members |-> <<"group:testers">>,
                  Condition |-> NoCondition] >>] ]

\* two permissions, two members, two bindings, a condition
OrderedPolicy ==
    [ Roles |-> [r \in {"roles/custom.ciRunner"} |->
                    <<"secretmanager.versions.access", "secretmanager.secrets.get">>],
      Groups |-> [g \in {"developers"} |->
                    <<"user:bob@example.com", "user:alice@example.com">>],
      Projects |->
          [p \in {"test-project"} |->
              << [Role |-> "roles/owner",
                  Members |-> <<"group:developers">>,
                  Condition |-> NoCondition],
                 [Role |-> "roles/custom.ciRunner",
                  Members |-> <<"serviceAccount:ci@example.com", "allUsers">>,
                  Condition |->
                      {[Expression |-> "resource.name.startsWith(\"projects/p\")",
                        Title |-> "CI limited to production secrets",
                        Description |-> ""]}] >>] ]

\* a member that is no valid UTF-8
BadBytesPolicy ==
    [ Roles |-> <<>>,
      Groups |-> [g \in {"testers"} |-> <<"user:test@example.com", BadUTF8>>],
      Projects |-> <<>> ]

Documents == {ZeroPolicy, TestPolicy, OrderedPolicy, BadBytesPolicy}

\* Bytes of a file: what text it is, of which document, and how many of the
\* three top-level sections (roles, groups, projects) of the text are there.
FullText == 3
Missing == [kind |-> "missing", tree |-> ZeroPolicy, sections |-> 0]
EmptyBytes == [kind |-> "empty", tree |-> ZeroPolicy, sections |-> 0]
\* the bytes {invalid json} of TestLoadInvalidJSON
BraceGarbage == [kind |-> "garbage", tree |-> ZeroPolicy, sections |-> FullText]
JsonText(d) == [kind |-> "json", tree |-> d, sections |-> FullText]
YamlText(d) == [kind |-> "yaml", tree |-> d, sections |-> FullText]
\* a text of d whose roles are a list, as in TestLoadInvalidYAML
JsonBadRoles(d) == [kind |-> "json-badroles", tree |-> d, sections |-> FullText]
YamlBadRoles(d) == [kind |-> "yaml-badroles", tree |-> d, sections |-> FullText]
\* the first n sections of a text: what a write that stopped early leaves
Truncated(text, n) ==
    IF n = 0 THEN EmptyBytes ELSE [text EXCEPT !.sections = n]

InitialFiles ==
    {Missing, EmptyBytes, BraceGarbage,
     JsonText(TestPolicy), YamlText(TestPolicy), YamlText(ZeroPolicy),
     JsonBadRoles(TestPolicy), YamlBadRoles(TestPolicy),
     Truncated(JsonText(TestPolicy), 1), Truncated(YamlText(TestPolicy), 2)}

\* errors of the policy package: the message and the extension it names
PolNil == [msg |-> "nil", ext |-> <<>>]
PolErr(m) == [msg |-> m, ext |-> <<>>]
ErrReadPolicy == "failed to read policy file"
ErrParseJSON == "failed to parse policy JSON"
ErrParseYAML == "failed to parse policy YAML"
ErrParseUnknown == "failed to parse policy (unknown extension, tried YAML)"
ErrWritePolicy == "failed to write policy file"

\* (*Policy)(nil)
NoPolicy == {}
NoLoad == [doc |-> NoPolicy, err |-> PolNil]

\* no policy file operation
PolicyIdle ==
    /\ polPath = PathNoExt
    /\ polFile = Missing
    /\ savePc = "idle"
    /\ saveDoc = ZeroPolicy
    /\ saveErr = PolNil
    /\ savePrior = Missing
    /\ loadRes = NoLoad
    /\ loadData = Missing
    /\ loadSaved = NoPolicy
    /\ loadAt = "none"

(***************************************************************************)
(* Values of the policy validator.  Its strings are sequences of           *)
(* characters: the validator splits them and compares their prefixes.      *)
(***************************************************************************)
MaxPermLen == 7
MaxErrors == 3

PermissionAlphabet == {"a", ".", "*"}
PermissionInputs == UNION {[1 .. n -> PermissionAlphabet] : n \in 0 .. MaxPermLen}

RolesPrefix == <<"r", "o", "l", "e", "s", "/">>
RoleNameHeads ==
    { <<>>, RolesPrefix, <<"r", "o", "l", "e", "s">>, <<"r", "o", "l", "e", "/">>,
      <<"R", "o", "l", "e", "s", "/">>, <<"x">> \o RolesPrefix, <<"r">> }
RoleNameTails ==
    { <<>>, <<"x">>, <<"/">>, <<"o", "w", "n", "e", "r">>,
      <<"c", "u", "s", "t", "o", "m", ".", "d">>, RolesPrefix }
RoleNameInputs == {h \o t : h \in RoleNameHeads, t \in RoleNameTails}

ErrPermissionFormat == "invalid permission format"
ErrRoleName == "invalid role name"
ErrUndefinedRole == "undefined custom role"
ErrMemberFormat == "invalid member format"
ErrUndefinedGroup == "undefined group"
ErrEmptyExpression == "empty condition expression"
\* an error message: what is wrong, and with which string
Msg(what, about) == [msg |-> what, about |-> about]
Messages == {Msg(ErrPermissionFormat, <<"a">>), Msg(ErrRoleName, <<>>)}

CustomPrefix == RolesPrefix \o <<"c", "u", "s", "t", "o", "m", ".">>
UserPrefix == <<"u", "s", "e", "r", ":">>
ServiceAccountPrefix ==
    <<"s", "e", "r", "v", "i", "c", "e", "A", "c", "c", "o", "u", "n", "t", ":">>
GroupPrefix == <<"g", "r", "o", "u", "p", ":">>
AllUsers == <<"a", "l", "l", "U", "s", "e", "r", "s">>
AllAuthenticatedUsers ==
    <<"a", "l", "l", "A", "u", "t", "h", "e", "n", "t", "i", "c", "a", "t", "e", "d",
      "U", "s", "e", "r", "s">>

PermGood == <<"a", ".", "a", ".", "a">>
PermTwoSegments == <<"a", ".", "a">>
PermWildcard == <<"a", ".", "*", ".", "a">>
RoleCustomD == CustomPrefix \o <<"d">>
RoleCustomU == CustomPrefix \o <<"u">>
RoleOwner == RolesPrefix \o <<"o", "w", "n", "e", "r">>
RoleX == RolesPrefix \o <<"x">>
RoleNoPrefix == <<"c", "u", "s", "t", "o", "m", ".", "x">>
GroupG == <<"g">>
GroupU == <<"u">>

\* which defects a document has: how many bad permissions, and whether it has
\* a bad role key, an undefined custom role, a bad member, an undefined group,
\* an empty condition expression
DefectChoices ==
    [badPermissions : 0 .. 2, badRoleName : BOOLEAN, undefinedRole : BOOLEAN,
     badMember : BOOLEAN, undefinedGroup : BOOLEAN, emptyExpression : BOOLEAN]

\* the document with the defects t, each in a place of its own
ValDoc(t) ==
    [ Roles |->
          [r \in {RoleCustomD, IF t.badRoleName THEN RoleNoPrefix ELSE RoleX} |->
              IF r = RoleCustomD
              THEN << IF t.badPermissions >= 1 THEN PermTwoSegments ELSE PermGood,
                      IF t.badPermissions >= 2 THEN PermWildcard ELSE PermGood >>
              ELSE <<PermGood>>],
      Groups |->
          [g \in {GroupG} |->
              << UserPrefix \o <<"b">>,
                 IF t.badMember THEN <<"b", "o", "b">> ELSE AllUsers >>],
      Projects |->
          [p \in {<<"p">>} |->
              << [Role |-> IF t.undefinedRole THEN RoleCustomU ELSE RoleCustomD,
                  Members |-> << GroupPrefix \o
                                   (IF t.undefinedGroup THEN GroupU ELSE GroupG) >>,
                  Condition |-> NoCondition],
                 [Role |-> RoleOwner,
                  Members |-> <<ServiceAccountPrefix \o <<"s">>, AllAuthenticatedUsers>>,
                  Condition |->
                      {[Expression |-> IF t.emptyExpression THEN <<>> ELSE <<"e">>,
                        Title |-> <<>>, Description |-> <<>>]}] >>] ]

\* binding roles: of the custom namespace or not, defined in Roles or not
RoleCustomEmpty == CustomPrefix
RoleCustomNoDot == RolesPrefix \o <<"c", "u", "s", "t", "o", "m">>
BindingRoles ==
    {RoleCustomD, RoleCustomU, RoleCustomEmpty, RoleCustomNoDot, RoleOwner,
     RoleNoPrefix, <<>>}
DefinedRoleSets == SUBSET {RoleCustomD, RoleCustomEmpty, RoleOwner}
\* a document of two projects with one binding each and the roles keys
BindingDoc(role1, role2, keys) ==
    [ Roles |-> [r \in keys |-> <<PermGood>>],
      Groups |-> [g \in {GroupG} |-> <<AllUsers>>],
      Projects |->
          [p \in {<<"p">>, <<"q">>} |->
              << [Role |-> IF p = <<"p">> THEN role1 ELSE role2,
                  Members |-> <<GroupPrefix \o GroupG>>,
                  Condition |-> NoCondition] >>] ]

\* member strings: of each form of the grammar, and of none
MemberInputs ==
    { UserPrefix \o <<"b">>, UserPrefix, ServiceAccountPrefix \o <<"s">>,
      ServiceAccountPrefix, GroupPrefix \o GroupG, GroupPrefix \o GroupU,
      GroupPrefix \o <<"h">>, GroupPrefix, AllUsers, AllAuthenticatedUsers,
      <<"b", "o", "b">>, <<>>, <<"d", "o", "m", "a", "i", "n", ":", "x">>,
      <<"U", "s", "e", "r", ":", "b">>, AllUsers \o <<"X">>,
      UserPrefix \o GroupPrefix \o GroupG, <<"x">> \o UserPrefix \o <<"b">> }
GroupH == <<"h">>
\* a document with one member in a group and one in a binding; the groups
\* are h, which holds the first member, and g if withG
MemberDoc(inGroup, inBinding, withG) ==
    [ Roles |-> [r \in {RoleCustomD} |-> <<PermGood>>],
      Groups |-> [g \in {GroupH} \cup (IF withG THEN {GroupG} ELSE {}) |->
                     IF g = GroupH THEN <<inGroup>> ELSE <<AllUsers>>],
      Projects |->
          [p \in {<<"p">>} |->
              << [Role |-> RoleCustomD, Members |-> <<inBinding>>,
                  Condition |-> NoCondition] >>] ]

\* &ValidationResult{Valid: true, Errors: []string{}}
FreshResult == [Valid |-> TRUE, Errors |-> <<>>]
NoCall == [fn |-> "none"]

\* no validator call
ValidatorIdle ==
    /\ vcall = NoCall
    /\ result = FreshResult
    /\ added = <<>>

(***************************************************************************)
(* Values of the principal propagation: gRPC metadata.                     *)
(***************************************************************************)
MaxPairs == 2

\* "x-emulator-principal" and the header form "X-Emulator-Principal"
KeyPrincipal ==
    <<"x", "-", "e", "m", "u", "l", "a", "t", "o", "r", "-",
      "p", "r", "i", "n", "c", "i", "p", "a", "l">>
KeyPrincipalHeader ==
    <<"X", "-", "E", "m", "u", "l", "a", "t", "o", "r", "-",
      "P", "r", "i", "n", "c", "i", "p", "a", "l">>
KeyOther == <<"X", "-", "T", "r", "a", "c", "e">>
CarrierKeys == {KeyPrincipal, KeyPrincipalHeader, KeyOther}
Principals == {"user:alice@example.com", "serviceAccount:ci@test.iam.gserviceaccount.com"}

NotSent == {}
NotExtracted == {}
\* no call made
PrincipalIdle ==
    /\ outgoing = <<>>
    /\ sent = NotSent
    /\ extracted = NotExtracted

(***************************************************************************)
(* Values of the start command (cmd start, internal/docker).               *)
(***************************************************************************)
ErrPullFailed == "docker-compose pull failed"
ErrUpFailed == "docker-compose up failed"
\* nothing printed, nothing returned yet
NoOutput == [warned |-> FALSE, success |-> FALSE, returned |-> FALSE, err |-> ErrNil]
\* the start command is not running
StartIdle ==
    /\ startPc = "idle"
    /\ docker = <<>>
    /\ startOut = NoOutput

(***************************************************************************)
(* Values of the documents in memory.                                      *)
(***************************************************************************)
MaxDocs == 2
\* no document was loaded
DocsIdle ==
    /\ heap = <<>>
    /\ snap = <<>>

(***************************************************************************)
(* Initial state: a constructed server, no check in progress.              *)
(***************************************************************************)
NoCtx == [md |-> <<>>, cancelled |-> FALSE]
NoArgs == [resource |-> "", permission |-> ""]

Init ==
    /\ iamMode \in AuthModes
    /\ iamUp \in BOOLEAN
    /\ pc = [c \in Calls |-> "idle"]
    /\ ctx = [c \in Calls |-> NoCtx]
    /\ args = [c \in Calls |-> NoArgs]
    /\ principal = [c \in Calls |-> ""]
    /\ allowed = [c \in Calls |-> FALSE]
    /\ err = [c \in Calls |-> ErrNil]
    /\ ret = [c \in Calls |-> NoRet]
    /\ request = [c \in Calls |-> NoRequest]
    /\ invoked = [c \in Calls |-> 0]
    /\ ConfigIdle
    /\ PolicyIdle
    /\ ValidatorIdle
    /\ PrincipalIdle
    /\ StartIdle
    /\ DocsIdle

(***************************************************************************)
(* checkPermission, lines 1079-1086: entry, the mode test, the principal   *)
(* extraction and the outbound CheckPermission call.                       *)
(***************************************************************************)
checkPermission(c) ==
    /\ pc[c] = "idle"
    /\ \E md \in IncomingMetadata, r \in Resources, p \in Permissions :
          /\ ctx' = [ctx EXCEPT ![c] = [md |-> md, cancelled |-> FALSE]]
          /\ args' = [args EXCEPT ![c] = [resource |-> r, permission |-> p]]
          /\ IF skipsCheck(iamMode)
             THEN /\ ret' = [ret EXCEPT ![c] = RetNil]
                  /\ pc' = [pc EXCEPT ![c] = "done"]
                  /\ UNCHANGED <<principal, request, invoked>>
             ELSE /\ principal' =
                        [principal EXCEPT ![c] = extractPrincipalFromContext(ctx'[c])]
                  /\ request' = [request EXCEPT ![c] = <<principal'[c], r, p>>]
                  /\ invoked' = [invoked EXCEPT ![c] = @ + 1]
                  /\ pc' = [pc EXCEPT ![c] = "calling"]
                  /\ UNCHANGED ret
    /\ UNCHANGED <<iamMode, iamUp, allowed, err>>
    /\ UNCHANGED notMediator

(***************************************************************************)
(* The outbound call returns.                                              *)
(***************************************************************************)
\* the IAM emulator evaluates its policy and answers granted or not
IamAnswers(c) ==
    /\ pc[c] = "calling"
    /\ iamUp
    /\ \E g \in BOOLEAN : allowed' = [allowed EXCEPT ![c] = g]
    /\ err' = [err EXCEPT ![c] = ErrNil]
    /\ pc' = [pc EXCEPT ![c] = "received"]
    /\ UNCHANGED <<iamMode, iamUp, ctx, args, principal, ret, request, invoked>>
    /\ UNCHANGED notMediator

\* the call fails with an error that is no connectivity error
IamRejectsRequest(c) ==
    /\ pc[c] = "calling"
    /\ iamUp
    /\ allowed' = [allowed EXCEPT ![c] = FALSE]
    /\ err' = [err EXCEPT ![c] = ErrInvalidArgument]
    /\ pc' = [pc EXCEPT ![c] = "received"]
    /\ UNCHANGED <<iamMode, iamUp, ctx, args, principal, ret, request, invoked>>
    /\ UNCHANGED notMediator

\* the IAM emulator cannot be reached
IamUnreachable(c) ==
    /\ pc[c] = "calling"
    /\ ~iamUp
    /\ allowed' = [allowed EXCEPT ![c] = FALSE]
    /\ err' = [err EXCEPT ![c] = ErrUnavailable]
    /\ pc' = [pc EXCEPT ![c] = "received"]
    /\ UNCHANGED <<iamMode, iamUp, ctx, args, principal, ret, request, invoked>>
    /\ UNCHANGED notMediator

\* the caller's cancellation or timeout fires before a result is obtained
CtxDone(c) ==
    /\ pc[c] = "calling"
    /\ ctx' = [ctx EXCEPT ![c].cancelled = TRUE]
    /\ allowed' = [allowed EXCEPT ![c] = FALSE]
    /\ err' = [err EXCEPT ![c] = ErrDeadlineExceeded]
    /\ pc' = [pc EXCEPT ![c] = "received"]
    /\ UNCHANGED <<iamMode, iamUp, args, principal, ret, request, invoked>>
    /\ UNCHANGED notMediator

(***************************************************************************)
(* checkPermission, lines 1087-1101: the result is interpreted.            *)
(***************************************************************************)
checkPermissionReturn(c) ==
    /\ pc[c] = "received"
    /\ ret' = [ret EXCEPT ![c] = interpretResult(iamMode, allowed[c], err[c])]
    /\ pc' = [pc EXCEPT ![c] = "done"]
    /\ UNCHANGED <<iamMode, iamUp, ctx, args, principal, allowed, err,
                   request, invoked>>
    /\ UNCHANGED notMediator

\* the caller has its answer; the call's frame is gone
Forget(c) ==
    /\ pc[c] = "done"
    /\ pc' = [pc EXCEPT ![c] = "idle"]
    /\ ctx' = [ctx EXCEPT ![c] = NoCtx]
    /\ args' = [args EXCEPT ![c] = NoArgs]
    /\ principal' = [principal EXCEPT ![c] = ""]
    /\ allowed' = [allowed EXCEPT ![c] = FALSE]
    /\ err' = [err EXCEPT ![c] = ErrNil]
    /\ ret' = [ret EXCEPT ![c] = NoRet]
    /\ request' = [request EXCEPT ![c] = NoRequest]
    /\ invoked' = [invoked EXCEPT ![c] = 0]
    /\ UNCHANGED <<iamMode, iamUp>>
    /\ UNCHANGED notMediator

(***************************************************************************)
(* The IAM emulator goes down and comes back.                              *)
(***************************************************************************)
IamFails ==
    /\ iamUp
    /\ iamUp' = FALSE
    /\ UNCHANGED <<iamMode, pc, ctx, args, principal, allowed, err, ret,
                   request, invoked>>
    /\ UNCHANGED notMediator

IamRecovers ==
    /\ ~iamUp
    /\ iamUp' = TRUE
    /\ UNCHANGED <<iamMode, pc, ctx, args, principal, allowed, err, ret,
                   request, invoked>>
    /\ UNCHANGED notMediator

Next ==
    \/ \E c \in Calls : checkPermission(c)
    \/ \E c \in Calls : IamAnswers(c)
    \/ \E c \in Calls : IamRejectsRequest(c)
    \/ \E c \in Calls : IamUnreachable(c)
    \/ \E c \in Calls : CtxDone(c)
    \/ \E c \in Calls : checkPermissionReturn(c)
    \/ \E c \in Calls : Forget(c)
    \/ IamFails
    \/ IamRecovers

Spec == Init /\ [][Next]_vars

(***************************************************************************)
(* internal/config: viper's layers, config.Init, config.Load, Validate.    *)
(***************************************************************************)
MediatorIdle ==
    /\ iamMode = AuthModeOff
    /\ iamUp = TRUE
    /\ pc = [c \in Calls |-> "idle"]
    /\ ctx = [c \in Calls |-> NoCtx]
    /\ args = [c \in Calls |-> NoArgs]
    /\ principal = [c \in Calls |-> ""]
    /\ allowed = [c \in Calls |-> FALSE]
    /\ err = [c \in Calls |-> ErrNil]
    /\ ret = [c \in Calls |-> NoRet]
    /\ request = [c \in Calls |-> NoRequest]
    /\ invoked = [c \in Calls |-> 0]

Has(layer, k) == k \in DOMAIN layer

\* AutomaticEnv: an empty environment value counts as not set
EnvHas(k) == Has(osEnv, k) /\ osEnv[k] # ""

\* whether any layer gives the key a value
viperIsSet(k) ==
    Has(viperFlags, k) \/ EnvHas(k) \/ Has(viperConfig, k) \/ Has(viperDefaults, k)

\* viper's lookup: flag > env > config file > default; zero is the zero
\* value of the type asked for
viperGet(k, zero) ==
    IF Has(viperFlags, k) THEN viperFlags[k]
    ELSE IF EnvHas(k) THEN osEnv[k]
    ELSE IF Has(viperConfig, k) THEN viperConfig[k]
    ELSE IF Has(viperDefaults, k) THEN viperDefaults[k]
    ELSE zero

\* the defaults config.Init sets (config.go lines 42-48)
configDefaults ==
    [k \in {KeyIAMMode} |-> "permissive"]
        @@ [k \in {KeyTrace, KeyPullOnStart} |-> FALSE]
        @@ [k \in {KeyPolicyFile} |-> "./policy.yaml"]
        @@ [k \in {KeyPortIAM} |-> DefaultPortIAM]
        @@ [k \in {KeyPortSecretManager} |-> DefaultPortSecretManager]
        @@ [k \in {KeyPortKMS} |-> DefaultPortKMS]

\* a port check that lets port 0 through
PortOutOfRangeBelowZero(n) == n < 0 \/ n > MaxPort
PortOutOfRange(n) == n < MinPort \/ n > MaxPort

\* a Validate that only refuses an empty mode
ConfigValidateNonEmptyMode(c) ==
    IF c.IAMMode = ""
    THEN ErrInvalidMode
    ELSE IF PortOutOfRange(c.Ports.IAM) THEN ErrInvalidIAMPort
    ELSE IF PortOutOfRange(c.Ports.SecretManager) THEN ErrInvalidSecretManagerPort
    ELSE IF PortOutOfRange(c.Ports.KMS) THEN ErrInvalidKMSPort
    ELSE ErrNil

\* (c *Config) Validate
ConfigValidate(c) ==
    IF c.IAMMode # "off" /\ c.IAMMode # "permissive" /\ c.IAMMode # "strict"
    THEN ErrInvalidMode
    ELSE IF PortOutOfRange(c.Ports.IAM) THEN ErrInvalidIAMPort
    ELSE IF PortOutOfRange(c.Ports.SecretManager) THEN ErrInvalidSecretManagerPort
    ELSE IF PortOutOfRange(c.Ports.KMS) THEN ErrInvalidKMSPort
    ELSE ErrNil

\* the Config config.Load builds from viper (config.go lines 66-76)
resolvedConfig ==
    [ IAMMode |-> viperGet(KeyIAMMode, ""),
      Trace |-> viperGet(KeyTrace, FALSE),
      PullOnStart |-> viperGet(KeyPullOnStart, FALSE),
      PolicyFile |-> viperGet(KeyPolicyFile, ""),
      Ports |-> [ IAM |-> viperGet(KeyPortIAM, 0),
                  SecretManager |-> viperGet(KeyPortSecretManager, 0),
                  KMS |-> viperGet(KeyPortKMS, 0) ] ]

\* what config.Load returns for the Config it built
configLoadResult(c) ==
    IF ConfigValidate(c) # ErrNil
    THEN [cfg |-> NoConfig, err |-> ConfigValidate(c)]
    ELSE [cfg |-> {c}, err |-> ErrNil]

\* a gcp-emulator process is started in some environment
ConfigInitState ==
    /\ osEnv \in ModeLayers
    /\ configFile \in ConfigFiles
    /\ viperDefaults = EmptyLayer
    /\ viperConfig = EmptyLayer
    /\ viperFlags = EmptyLayer
    /\ cliPc = "main"
    /\ loaded = NotLoaded
    /\ MediatorIdle
    /\ PolicyIdle
    /\ ValidatorIdle
    /\ PrincipalIdle
    /\ StartIdle
    /\ DocsIdle

\* main: config.Init sets the defaults and reads the config file; a missing
\* file is ignored, any other read error ends the process
configInit ==
    /\ cliPc = "main"
    /\ viperDefaults' = configDefaults
    /\ IF configFile.kind = "malformed"
       THEN /\ cliPc' = "exit"
            /\ loaded' = [cfg |-> NoConfig, err |-> ErrReadConfig]
            /\ UNCHANGED viperConfig
       ELSE /\ cliPc' = "inited"
            /\ viperConfig' = configFile.keys
            /\ UNCHANGED loaded
    /\ UNCHANGED <<osEnv, configFile, viperFlags>>
    /\ UNCHANGED notConfig

\* cobra parses the command line: the bound flags --mode and --pull
parseFlags ==
    /\ cliPc = "inited"
    /\ \E f \in FlagLayers : viperFlags' = f
    /\ cliPc' = "parsed"
    /\ UNCHANGED <<osEnv, configFile, viperDefaults, viperConfig, loaded>>
    /\ UNCHANGED notConfig

\* the command's RunE calls config.Load
configLoad ==
    /\ cliPc = "parsed"
    /\ loaded' = configLoadResult(resolvedConfig)
    /\ cliPc' = "loaded"
    /\ UNCHANGED <<osEnv, configFile, viperDefaults, viperConfig, viperFlags>>
    /\ UNCHANGED notConfig

ConfigNext ==
    \/ configInit
    \/ parseFlags
    \/ configLoad

SpecConfig == ConfigInitState /\ [][ConfigNext]_vars

(***************************************************************************)
(* The policy codec: policy.Load and policy.Save.                          *)
(***************************************************************************)
UpperCase == <<"A", "B", "C", "D", "E", "F", "G", "H", "I", "J", "K", "L", "M",
               "N", "O", "P", "Q", "R", "S", "T", "U", "V", "W", "X", "Y", "Z">>
LowerCase == <<"a", "b", "c", "d", "e", "f", "g", "h", "i", "j", "k", "l", "m",
               "n", "o", "p", "q", "r", "s", "t", "u", "v", "w", "x", "y", "z">>

\* strings.ToLower
toLowerRune(c) ==
    IF \E i \in DOMAIN UpperCase : UpperCase[i] = c
    THEN LowerCase[CHOOSE i \in DOMAIN UpperCase : UpperCase[i] = c]
    ELSE c
ToLower(str) == [i \in DOMAIN str |-> toLowerRune(str[i])]

\* filepath.Ext: the suffix from the last dot of the last element of the path
RECURSIVE ExtFrom(_, _)
ExtFrom(path, i) ==
    IF i = 0 \/ path[i] = "/" THEN <<>>
    ELSE IF path[i] = "." THEN SubSeq(path, i, Len(path))
    ELSE ExtFrom(path, i - 1)
filepathExt(path) == ExtFrom(path, Len(path))

\* ext := strings.ToLower(filepath.Ext(path)), without the ToLower
policyExtCaseSensitive(path) == filepathExt(path)
\* ext := strings.ToLower(filepath.Ext(path))
policyExt(path) == ToLower(filepathExt(path))

\* encoding/json writes a string coerced to valid UTF-8
toValidUTF8(str) == IF str = BadUTF8 THEN CoercedUTF8 ELSE str
\* yaml.v3 writes a string that is no valid UTF-8 as !!binary and reads it back
yamlString(str) == str
\* the string a decoder reads back from the text of str in a format
encString(format, str) ==
    IF format = "json" THEN toValidUTF8(str) ELSE yamlString(str)

\* the document a decoder reads back from the text of d: every string encoded
encSeq(format, q) == [i \in DOMAIN q |-> encString(format, q[i])]
encKeys(format, m) ==
    IF DOMAIN m = {} THEN <<>>
    ELSE [k2 \in {encString(format, k) : k \in DOMAIN m} |->
             m[CHOOSE k \in DOMAIN m : encString(format, k) = k2]]
encCondition(format, c) ==
    [Expression |-> encString(format, c.Expression),
     Title |-> encString(format, c.Title),
     Description |-> encString(format, c.Description)]
encBinding(format, b) ==
    [Role |-> encString(format, b.Role),
     Members |-> encSeq(format, b.Members),
     Condition |-> {encCondition(format, c) : c \in b.Condition}]
encBindings(format, bs) == [i \in DOMAIN bs |-> encBinding(format, bs[i])]
encStringLists(format, m) ==
    IF DOMAIN m = {} THEN <<>>
    ELSE LET keyed == encKeys(format, m)
         IN  [k \in DOMAIN keyed |-> encSeq(format, keyed[k])]
encProjects(format, m) ==
    IF DOMAIN m = {} THEN <<>>
    ELSE LET keyed == encKeys(format, m)
         IN  [k \in DOMAIN keyed |-> encBindings(format, keyed[k])]
encPolicy(format, d) ==
    [Roles |-> encStringLists(format, d.Roles),
     Groups |-> encStringLists(format, d.Groups),
     Projects |-> encProjects(format, d.Projects)]

jsonMarshalIndent(d) == JsonText(encPolicy("json", d))
yamlMarshal(d) == YamlText(encPolicy("yaml", d))

\* the document of the first n of the sections roles, groups, projects
prefixPolicy(d, n) ==
    [Roles |-> IF n >= 1 THEN d.Roles ELSE <<>>,
     Groups |-> IF n >= 2 THEN d.Groups ELSE <<>>,
     Projects |-> IF n >= 3 THEN d.Projects ELSE <<>>]
\* what a decoder has stored when it meets roles of the wrong type
withoutRoles(d) == [d EXCEPT !.Roles = <<>>]

\* json.Unmarshal(data, &policy): the policy afterwards and whether it failed
jsonUnmarshal(data) ==
    CASE data.kind = "json" /\ data.sections = FullText ->
             [policy |-> data.tree, failed |-> FALSE]
      [] data.kind = "json-badroles" ->
             [policy |-> withoutRoles(data.tree), failed |-> TRUE]
      [] OTHER -> [policy |-> ZeroPolicy, failed |-> TRUE]

\* yaml.Unmarshal(data, &policy)
yamlUnmarshal(data) ==
    CASE data.kind = "yaml" ->
             [policy |-> prefixPolicy(data.tree, data.sections), failed |-> FALSE]
      [] data.kind = "json" /\ data.sections = FullText ->
             [policy |-> data.tree, failed |-> FALSE]
      [] data.kind \in {"empty", "garbage"} ->
             [policy |-> ZeroPolicy, failed |-> FALSE]
      [] data.kind \in {"yaml-badroles", "json-badroles"} ->
             [policy |-> withoutRoles(data.tree), failed |-> TRUE]
      [] OTHER -> [policy |-> ZeroPolicy, failed |-> TRUE]

\* the switch of Load: the decoder's result and the error a failure is wrapped in
loadDecode(ext, data) ==
    IF ext = ExtJson
    THEN [out |-> jsonUnmarshal(data), err |-> PolErr(ErrParseJSON)]
    ELSE IF ext \in {ExtYaml, ExtYml}
    THEN [out |-> yamlUnmarshal(data), err |-> PolErr(ErrParseYAML)]
    ELSE [out |-> yamlUnmarshal(data),
          err |-> [msg |-> ErrParseUnknown, ext |-> ext]]

\* Load, returning the decoded policy together with the error
policyLoadKeepsPolicy(path, file) ==
    IF file = Missing
    THEN [doc |-> NoPolicy, err |-> PolErr(ErrReadPolicy)]
    ELSE LET dec == loadDecode(policyExt(path), file)
         IN  IF dec.out.failed
             THEN [doc |-> {dec.out.policy}, err |-> dec.err]
             ELSE [doc |-> {dec.out.policy}, err |-> PolNil]

\* Load that keeps the case of the extension
policyLoadCaseSensitive(path, file) ==
    IF file = Missing
    THEN [doc |-> NoPolicy, err |-> PolErr(ErrReadPolicy)]
    ELSE LET dec == loadDecode(policyExtCaseSensitive(path), file)
         IN  IF dec.out.failed
             THEN [doc |-> NoPolicy, err |-> dec.err]
             ELSE [doc |-> {dec.out.policy}, err |-> PolNil]

\* Load(path), file being the bytes stored at path
policyLoad(path, file) ==
    IF file = Missing
    THEN [doc |-> NoPolicy, err |-> PolErr(ErrReadPolicy)]
    ELSE LET dec == loadDecode(policyExt(path), file)
         IN  IF dec.out.failed
             THEN [doc |-> NoPolicy, err |-> dec.err]
             ELSE [doc |-> {dec.out.policy}, err |-> PolNil]

\* Save that writes YAML whatever the extension
saveMarshalYamlOnly(ext, d) == yamlMarshal(d)

\* the switch of Save: the bytes to write
saveMarshal(ext, d) ==
    IF ext = ExtJson THEN jsonMarshalIndent(d)
    ELSE IF ext \in {ExtYaml, ExtYml} THEN yamlMarshal(d)
    ELSE yamlMarshal(d)

\* a process with a policy path, and whatever is stored there
PolicyInitState ==
    /\ polPath \in Paths
    /\ polFile \in InitialFiles
    /\ savePc = "idle"
    /\ saveDoc = ZeroPolicy
    /\ saveErr = PolNil
    /\ savePrior = polFile
    /\ loadRes = NoLoad
    /\ loadData = Missing
    /\ loadSaved = NoPolicy
    /\ loadAt = "none"
    /\ MediatorIdle
    /\ ConfigIdle
    /\ ValidatorIdle
    /\ PrincipalIdle
    /\ StartIdle
    /\ DocsIdle

\* Load(polPath)
LoadCall ==
    /\ loadData' = polFile
    /\ loadRes' = policyLoad(polPath, polFile)
    /\ loadSaved' = IF savePc = "done" /\ saveErr = PolNil
                    THEN {saveDoc} ELSE NoPolicy
    /\ loadAt' = savePc
    /\ UNCHANGED <<polPath, polFile, savePc, saveDoc, saveErr, savePrior>>
    /\ UNCHANGED notPolicy

\* Save(d, polPath) up to the call of os.WriteFile
SaveCall(d) ==
    /\ savePc \in {"idle", "done"}
    /\ savePc' = "marshalled"
    /\ saveDoc' = d
    /\ saveErr' = PolNil
    /\ savePrior' = polFile
    /\ UNCHANGED <<polPath, polFile, loadRes, loadData, loadSaved, loadAt>>
    /\ UNCHANGED notPolicy

\* os.WriteFile cannot open the file
WriteFileOpenFails ==
    /\ savePc = "marshalled"
    /\ saveErr' = PolErr(ErrWritePolicy)
    /\ savePc' = "done"
    /\ UNCHANGED <<polPath, polFile, saveDoc, savePrior, loadRes, loadData, loadSaved, loadAt>>
    /\ UNCHANGED notPolicy

\* an open without O_TRUNC: the previous bytes stay until they are overwritten
WriteFileOpenKeepsBytes ==
    /\ savePc = "marshalled"
    /\ savePc' = "opened"
    /\ UNCHANGED <<polPath, polFile, saveDoc, saveErr, savePrior, loadRes, loadData,
                   loadSaved, loadAt>>
    /\ UNCHANGED notPolicy

\* os.WriteFile opens the file with O_WRONLY|O_CREATE|O_TRUNC
WriteFileOpen ==
    /\ savePc = "marshalled"
    /\ polFile' = EmptyBytes
    /\ savePc' = "opened"
    /\ UNCHANGED <<polPath, saveDoc, saveErr, savePrior, loadRes, loadData, loadSaved, loadAt>>
    /\ UNCHANGED notPolicy

\* os.WriteFile writes the bytes and closes the file; Save returns nil
WriteFileWrite ==
    /\ savePc = "opened"
    /\ polFile' = saveMarshal(policyExt(polPath), saveDoc)
    /\ savePc' = "done"
    /\ UNCHANGED <<polPath, saveDoc, saveErr, savePrior, loadRes, loadData, loadSaved, loadAt>>
    /\ UNCHANGED notPolicy

\* the write stops after n sections (disk full, I/O error); Save returns the error
WriteFileWriteFails(n) ==
    /\ savePc = "opened"
    /\ polFile' = Truncated(saveMarshal(policyExt(polPath), saveDoc), n)
    /\ saveErr' = PolErr(ErrWritePolicy)
    /\ savePc' = "done"
    /\ UNCHANGED <<polPath, saveDoc, savePrior, loadRes, loadData, loadSaved, loadAt>>
    /\ UNCHANGED notPolicy

PolicyNext ==
    \/ LoadCall
    \/ \E d \in Documents : SaveCall(d)
    \/ WriteFileOpenFails
    \/ WriteFileOpen
    \/ WriteFileWrite
    \/ \E n \in 0 .. (FullText - 1) : WriteFileWriteFails(n)

SpecPolicy == PolicyInitState /\ [][PolicyNext]_vars

(***************************************************************************)
(* The policy validator: validatePermission, validateRoleName,             *)
(* ValidationResult.addError and Validate.                                 *)
(***************************************************************************)
\* strings.Split(str, "."): the segments between the dots, from position i on
RECURSIVE SplitFrom(_, _, _)
SplitFrom(str, i, segment) ==
    IF i > Len(str) THEN <<segment>>
    ELSE IF str[i] = "." THEN <<segment>> \o SplitFrom(str, i + 1, <<>>)
    ELSE SplitFrom(str, i + 1, Append(segment, str[i]))
SplitDots(str) == SplitFrom(str, 1, <<>>)

\* validatePermission that only counts the segments
validatePermissionCountOnly(permission) ==
    IF Len(SplitDots(permission)) < 3 THEN ErrPermissionFormat ELSE ErrNil

\* validatePermission(permission): nil or an error
validatePermission(permission) ==
    LET parts == SplitDots(permission)
    IN  IF Len(parts) < 3 THEN ErrPermissionFormat
        ELSE IF \E i \in DOMAIN parts : parts[i] = <<>> \/ parts[i] = <<"*">>
        THEN ErrPermissionFormat
        ELSE ErrNil

\* strings.HasPrefix
HasPrefix(str, prefix) ==
    /\ Len(str) >= Len(prefix)
    /\ \A i \in DOMAIN prefix : str[i] = prefix[i]

\* the role name check that accepts the bare prefix
validateRoleNamePrefixOnly(name) ==
    IF HasPrefix(name, RolesPrefix) THEN ErrNil ELSE ErrRoleName

\* the role name check: nil or an error
validateRoleName(name) ==
    IF HasPrefix(name, RolesPrefix) /\ Len(name) > Len(RolesPrefix)
    THEN ErrNil ELSE ErrRoleName

\* addError that leaves Valid alone
addErrorKeepsValid(r, msg) == [r EXCEPT !.Errors = Append(r.Errors, msg)]

\* (*ValidationResult).addError(msg)
addError(r, msg) == [Valid |-> FALSE, Errors |-> Append(r.Errors, msg)]

\* the elements of a set, one after the other
RECURSIVE SetToSeq(_)
SetToSeq(S) ==
    IF S = {} THEN <<>>
    ELSE LET x == CHOOSE y \in S : TRUE
         IN  <<x>> \o SetToSeq(S \ {x})
RECURSIVE Flatten(_)
Flatten(seqs) == IF Len(seqs) = 0 THEN <<>> ELSE Head(seqs) \o Flatten(Tail(seqs))
\* the values of a map, in the order its keys are visited
ValuesOf(m) == LET keys == SetToSeq(DOMAIN m) IN [i \in DOMAIN keys |-> m[keys[i]]]
\* the outcome of a check: passed, or the message of the failure
Passed == Msg(ErrNil, <<>>)
Outcome(e, about) == IF e = ErrNil THEN Passed ELSE Msg(e, about)

\* the rest of str after a prefix of length n
After(str, n) == SubSeq(str, n + 1, Len(str))

\* the checks of one member string: its format, and the group it names
validateMember(member, groups) ==
    IF HasPrefix(member, GroupPrefix)
    THEN << IF After(member, Len(GroupPrefix)) \in DOMAIN groups THEN Passed
            ELSE Msg(ErrUndefinedGroup, member) >>
    ELSE IF \/ member \in {AllUsers, AllAuthenticatedUsers}
            \/ HasPrefix(member, UserPrefix) /\ Len(member) > Len(UserPrefix)
            \/ /\ HasPrefix(member, ServiceAccountPrefix)
               /\ Len(member) > Len(ServiceAccountPrefix)
    THEN <<Passed>>
    ELSE <<Msg(ErrMemberFormat, member)>>

\* the prefixes of the principal grammar that a string starts with
recognizedPrefixes(str) ==
    {prefix \in {UserPrefix, ServiceAccountPrefix, GroupPrefix} : HasPrefix(str, prefix)}

\* ValidateFormat asking for a name after group: too
ValidateFormatNamedGroup(str) ==
    \/ str \in {AllUsers, AllAuthenticatedUsers}
    \/ \E prefix \in recognizedPrefixes(str) : Len(str) > Len(prefix)

\* PrincipalCodec.ValidateFormat(principal) -> bool
ValidateFormat(str) ==
    IF str \in {AllUsers, AllAuthenticatedUsers} THEN TRUE
    ELSE IF Cardinality(recognizedPrefixes(str)) # 1 THEN FALSE
    ELSE \E prefix \in recognizedPrefixes(str) :
             prefix = GroupPrefix \/ Len(str) > Len(prefix)

allBindings(d) == Flatten(ValuesOf(d.Projects))
\* the members of the bindings only
allMembersOfBindings(d) ==
    Flatten([i \in DOMAIN allBindings(d) |-> allBindings(d)[i].Members])
allMembers(d) ==
    Flatten(ValuesOf(d.Groups))
    \o Flatten([i \in DOMAIN allBindings(d) |-> allBindings(d)[i].Members])

\* check 1: the format of every permission of every role
checkPermissions(d) ==
    LET perms == Flatten(ValuesOf(d.Roles))
    IN  [i \in DOMAIN perms |-> Outcome(validatePermission(perms[i]), perms[i])]
\* check 2: every role key, and every binding role of the custom namespace
checkRoleNames(d) ==
    LET keys == SetToSeq(DOMAIN d.Roles)
        custom == SelectSeq(allBindings(d), LAMBDA b : HasPrefix(b.Role, CustomPrefix))
    IN  [i \in DOMAIN keys |-> Outcome(validateRoleName(keys[i]), keys[i])]
        \o [i \in DOMAIN custom |->
               Outcome(validateRoleName(custom[i].Role), custom[i].Role)]
\* check 3 asking every binding role to be a key of Roles
checkRoleReferencesEvery(d) ==
    LET bs == allBindings(d)
    IN  [i \in DOMAIN bs |->
            IF bs[i].Role \notin DOMAIN d.Roles
            THEN Msg(ErrUndefinedRole, bs[i].Role) ELSE Passed]
\* check 3: a binding role of the custom namespace is a key of Roles
checkRoleReferences(d) ==
    LET bs == allBindings(d)
    IN  [i \in DOMAIN bs |->
            IF HasPrefix(bs[i].Role, CustomPrefix) /\ bs[i].Role \notin DOMAIN d.Roles
            THEN Msg(ErrUndefinedRole, bs[i].Role) ELSE Passed]
\* check 4: every member of every group and binding
checkMembers(d) ==
    LET ms == allMembers(d)
    IN  Flatten([i \in DOMAIN ms |-> validateMember(ms[i], d.Groups)])
\* check 5: the expression of every condition
checkConditions(d) ==
    LET bs == SelectSeq(allBindings(d), LAMBDA b : b.Condition # NoCondition)
    IN  [i \in DOMAIN bs |->
            IF \E c \in bs[i].Condition : c.Expression = <<>>
            THEN Msg(ErrEmptyExpression, bs[i].Role) ELSE Passed]

\* a collector that stops at the first failed check
RECURSIVE collectFirst(_, _, _)
collectFirst(outcomes, i, r) ==
    IF i > Len(outcomes) THEN r
    ELSE IF outcomes[i] = Passed THEN collectFirst(outcomes, i + 1, r)
    ELSE addError(r, outcomes[i])

\* the collector threaded through the checks: every failed check adds its error
RECURSIVE collect(_, _, _)
collect(outcomes, i, r) ==
    IF i > Len(outcomes) THEN r
    ELSE collect(outcomes, i + 1,
                 IF outcomes[i] = Passed THEN r ELSE addError(r, outcomes[i]))

\* Validate(doc) -> ValidationResult
Validate(d) ==
    collect(checkPermissions(d) \o checkRoleNames(d) \o checkRoleReferences(d)
            \o checkMembers(d) \o checkConditions(d),
            1, FreshResult)

\* a fresh process
ValidatorInitState ==
    /\ ValidatorIdle
    /\ PrincipalIdle
    /\ StartIdle
    /\ DocsIdle
    /\ MediatorIdle
    /\ ConfigIdle
    /\ PolicyIdle

\* no validator function was called and no error added
ValidatorFresh == vcall = NoCall /\ added = <<>>

validatePermissionCall(permission) ==
    /\ ValidatorFresh
    /\ vcall' = [fn |-> "validatePermission", arg |-> permission,
                 out |-> validatePermission(permission)]
    /\ UNCHANGED <<result, added>>
    /\ UNCHANGED notValidator

validateRoleNameCall(name) ==
    /\ ValidatorFresh
    /\ vcall' = [fn |-> "validateRoleName", arg |-> name,
                 out |-> validateRoleName(name)]
    /\ UNCHANGED <<result, added>>
    /\ UNCHANGED notValidator

\* Validate of the document with the defects t
ValidateCall(t) ==
    /\ ValidatorFresh
    /\ vcall' = [fn |-> "Validate", arg |-> ValDoc(t), defects |-> t,
                 out |-> Validate(ValDoc(t))]
    /\ UNCHANGED <<result, added>>
    /\ UNCHANGED notValidator

\* PrincipalCodec.ValidateFormat(str), beside the member check of Validate
\* on the same string with no group defined
ValidateFormatCall(str) ==
    /\ ValidatorFresh
    /\ vcall' = [fn |-> "ValidateFormat", arg |-> str,
                 out |-> ValidateFormat(str),
                 member |-> validateMember(str, <<>>)]
    /\ UNCHANGED <<result, added>>
    /\ UNCHANGED notValidator

\* Validate of a document with the bindings of the roles role1 and role2
ValidateBindingsCall(role1, role2, keys) ==
    /\ ValidatorFresh
    /\ vcall' = [fn |-> "ValidateBindings", arg |-> BindingDoc(role1, role2, keys),
                 out |-> Validate(BindingDoc(role1, role2, keys))]
    /\ UNCHANGED <<result, added>>
    /\ UNCHANGED notValidator

\* Validate of a document with a member in a group and a member in a binding
ValidateMembersCall(inGroup, inBinding, withG) ==
    /\ ValidatorFresh
    /\ vcall' = [fn |-> "ValidateMembers",
                 arg |-> MemberDoc(inGroup, inBinding, withG),
                 out |-> Validate(MemberDoc(inGroup, inBinding, withG))]
    /\ UNCHANGED <<result, added>>
    /\ UNCHANGED notValidator

\* result.addError(msg)
addErrorCall(msg) ==
    /\ vcall = NoCall
    /\ Len(result.Errors) < MaxErrors
    /\ result' = addError(result, msg)
    /\ added' = Append(added, msg)
    /\ UNCHANGED vcall
    /\ UNCHANGED notValidator

ValidatorNext ==
    \/ \E permission \in PermissionInputs : validatePermissionCall(permission)
    \/ \E name \in RoleNameInputs : validateRoleNameCall(name)
    \/ \E t \in DefectChoices : ValidateCall(t)
    \/ \E str \in MemberInputs : ValidateFormatCall(str)
    \/ \E role1, role2 \in BindingRoles, keys \in DefinedRoleSets :
          ValidateBindingsCall(role1, role2, keys)
    \/ \E inGroup, inBinding \in MemberInputs, withG \in BOOLEAN :
          ValidateMembersCall(inGroup, inBinding, withG)
    \/ \E msg \in Messages : addErrorCall(msg)

SpecValidator == ValidatorInitState /\ [][ValidatorNext]_vars

(***************************************************************************)
(* Principal propagation: the sender appends the principal to the outgoing *)
(* context, gRPC carries the metadata, the receiver extracts it.           *)
(***************************************************************************)
\* metadata.FromOutgoingContext: the pairs by lower-cased key, in order
valuesUnder(kvs, key) ==
    LET under == SelectSeq(kvs, LAMBDA kv : ToLower(kv[1]) = key)
    IN  [i \in DOMAIN under |-> under[i][2]]
mdOf(kvs) ==
    [key \in {ToLower(kvs[i][1]) : i \in DOMAIN kvs} |-> valuesUnder(kvs, key)]

\* MD.Get(k): the values under the lower-cased key
mdGet(md, k) == IF ToLower(k) \in DOMAIN md THEN md[ToLower(k)] ELSE <<>>

\* extraction on the receiver: md.Get("x-emulator-principal"), first value
extractPrincipal(md) ==
    extractPrincipalFromContext([md |-> mdGet(md, KeyPrincipal)])

PrincipalInitState ==
    /\ PrincipalIdle
    /\ StartIdle
    /\ DocsIdle
    /\ MediatorIdle
    /\ ConfigIdle
    /\ PolicyIdle
    /\ ValidatorIdle

\* ctx = metadata.AppendToOutgoingContext(ctx, key, value)
AppendToOutgoingContext(key, value) ==
    /\ Len(outgoing) < MaxPairs
    /\ outgoing' = Append(outgoing, <<key, value>>)
    /\ UNCHANGED <<sent, extracted>>
    /\ UNCHANGED notPrincipal

\* the call is made: the receiver's incoming context holds the metadata
Transmit ==
    /\ sent' = {mdOf(outgoing)}
    /\ extracted' = NotExtracted
    /\ UNCHANGED outgoing
    /\ UNCHANGED notPrincipal

\* the receiver extracts the principal from its incoming context
ExtractCall ==
    /\ \E md \in sent : extracted' = {extractPrincipal(md)}
    /\ UNCHANGED <<outgoing, sent>>
    /\ UNCHANGED notPrincipal

PrincipalNext ==
    \/ \E key \in CarrierKeys, value \in Principals : AppendToOutgoingContext(key, value)
    \/ Transmit
    \/ ExtractCall

SpecPrincipal == PrincipalInitState /\ [][PrincipalNext]_vars

(***************************************************************************)
(* Load followed by Validate: the policy validate command hands the        *)
(* document Load returned to the validator.                                *)
(***************************************************************************)

\* a document with no role, no group and no project
EmptyDocument(d) ==
    /\ DOMAIN d.Roles = {}
    /\ DOMAIN d.Groups = {}
    /\ DOMAIN d.Projects = {}

\* Validate on the document of a Load that returned without error, for a
\* document that holds no role, group or project
ValidateLoaded ==
    /\ vcall = NoCall
    /\ loadRes # NoLoad
    /\ loadRes.err = PolNil
    /\ \E d \in loadRes.doc :
          /\ EmptyDocument(d)
          /\ vcall' = [fn |-> "ValidateLoaded", arg |-> d, data |-> loadData,
                       out |-> Validate(d)]
    /\ UNCHANGED <<result, added>>
    /\ UNCHANGED notValidator

LoadValidateNext ==
    \/ PolicyNext
    \/ ValidateLoaded

SpecLoadValidate == PolicyInitState /\ [][LoadValidateNext]_vars

(***************************************************************************)
(* The start command (startCmd.RunE) and docker.Pull / docker.Start.       *)
(***************************************************************************)

\* fmt.Sprintf("%d", n): the decimal digits of n
DigitChars == <<"0", "1", "2", "3", "4", "5", "6", "7", "8", "9">>
RECURSIVE fmtDigits(_)
fmtDigits(n) ==
    IF n < 10 THEN <<DigitChars[n + 1]>>
    ELSE fmtDigits(n \div 10) \o <<DigitChars[(n % 10) + 1]>>
fmtInt(n) == IF n < 0 THEN <<"-">> \o fmtDigits(0 - n) ELSE fmtDigits(n)

\* the environment entries docker.Start builds from the Config
startEnv(cfg) ==
    << <<"IAM_MODE", cfg.IAMMode>>,
       <<"IAM_PORT", fmtInt(cfg.Ports.IAM)>>,
       <<"SECRET_MANAGER_PORT", fmtInt(cfg.Ports.SecretManager)>>,
       <<"KMS_PORT", fmtInt(cfg.Ports.KMS)>> >>

\* the generated entries put in front of the inherited environment
composeEnvInheritedLast(inherited, cfg) == startEnv(cfg) \o inherited
\* cmd.Env = append(cmd.Environ(), env...)
composeEnv(inherited, cfg) == inherited \o startEnv(cfg)

\* the value the child process sees for a name: of duplicate entries the
\* last one is used; "" when the name is not set
RECURSIVE envLookup(_, _)
envLookup(env, name) ==
    IF env = <<>> THEN ""
    ELSE IF env[Len(env)][1] = name THEN env[Len(env)][2]
    ELSE envLookup(SubSeq(env, 1, Len(env) - 1), name)

\* what the process inherited under the names docker.Start sets
InheritedEnvs == {<<>>, << <<"IAM_MODE", "bogus">>, <<"KMS_PORT", <<"0">>>> >>}

\* config.Load returned an error: RunE returns it
StartLoadFails ==
    /\ cliPc = "loaded"
    /\ startPc = "idle"
    /\ loaded.err # ErrNil
    /\ startPc' = "done"
    /\ startOut' = [startOut EXCEPT !.returned = TRUE, !.err = loaded.err]
    /\ UNCHANGED docker
    /\ UNCHANGED configVars
    /\ UNCHANGED notStart

\* a pull whose failure ends the command
StartPullReturnsError(ok) ==
    /\ cliPc = "loaded"
    /\ startPc = "idle"
    /\ loaded.err = ErrNil
    /\ \E cfg \in loaded.cfg :
          /\ cfg.PullOnStart
          /\ docker' = Append(docker, [cmd |-> "pull", env |-> <<>>, ok |-> ok])
    /\ startOut' = IF ok THEN startOut
                   ELSE [startOut EXCEPT !.returned = TRUE, !.err = ErrPullFailed]
    /\ startPc' = IF ok THEN "pulled" ELSE "done"
    /\ UNCHANGED configVars
    /\ UNCHANGED notStart

\* if cfg.PullOnStart: docker.Pull(), a failure is printed as a warning
StartPull(ok) ==
    /\ cliPc = "loaded"
    /\ startPc = "idle"
    /\ loaded.err = ErrNil
    /\ \E cfg \in loaded.cfg :
          /\ cfg.PullOnStart
          /\ docker' = Append(docker, [cmd |-> "pull", env |-> <<>>, ok |-> ok])
    /\ startOut' = [startOut EXCEPT !.warned = ~ok]
    /\ startPc' = "pulled"
    /\ UNCHANGED configVars
    /\ UNCHANGED notStart

\* docker.Start(cfg): docker-compose up -d with the environment; a failure
\* is returned, a success is printed
StartUp(ok, inherited) ==
    /\ cliPc = "loaded"
    /\ loaded.err = ErrNil
    /\ \E cfg \in loaded.cfg :
          /\ \/ startPc = "pulled"
             \/ startPc = "idle" /\ ~cfg.PullOnStart
          /\ docker' = Append(docker, [cmd |-> "up",
                                       env |-> composeEnv(inherited, cfg),
                                       ok |-> ok])
    /\ startOut' = [startOut EXCEPT !.returned = TRUE,
                                    !.success = ok,
                                    !.err = IF ok THEN ErrNil ELSE ErrUpFailed]
    /\ startPc' = "done"
    /\ UNCHANGED configVars
    /\ UNCHANGED notStart

StartNext ==
    \/ ConfigNext
    \/ StartLoadFails
    \/ \E ok \in BOOLEAN : StartPull(ok)
    \/ \E ok \in BOOLEAN, inherited \in InheritedEnvs : StartUp(ok, inherited)

SpecStart == ConfigInitState /\ [][StartNext]_vars

(***************************************************************************)
(* Documents in memory: Load returns a pointer to a Policy, and Save and   *)
(* Validate are handed that pointer.                                       *)
(***************************************************************************)
CleanDoc ==
    ValDoc([badPermissions |-> 0, badRoleName |-> FALSE, undefinedRole |-> FALSE,
            badMember |-> FALSE, undefinedGroup |-> FALSE, emptyExpression |-> FALSE])
DefectiveDoc ==
    ValDoc([badPermissions |-> 1, badRoleName |-> FALSE, undefinedRole |-> TRUE,
            badMember |-> FALSE, undefinedGroup |-> FALSE, emptyExpression |-> TRUE])
\* the documents written in characters, which the validator reads
CharacterDocs == {CleanDoc, DefectiveDoc, ZeroPolicy}
\* files a path may hold when Load reads it
DocFiles ==
    {EmptyBytes, JsonText(TestPolicy), YamlText(BadBytesPolicy),
     YamlText(CleanDoc), JsonText(DefectiveDoc)}
DocPaths == {PathJson, PathYaml}

\* Load decoding into one Policy object that every caller shares
loadAllocateShared(h, d) == Append([i \in DOMAIN h |-> d], d)
\* var policy Policy ... return &policy: every Load returns a new object
loadAllocate(h, d) == Append(h, d)

\* *policy after Save: the marshallers read the document and assign no field
policyAfterSave(ext, d) == d

\* a process that has loaded nothing yet
DocsInitState ==
    /\ DocsIdle
    /\ PolicyIdle
    /\ ValidatorIdle
    /\ MediatorIdle
    /\ ConfigIdle
    /\ PrincipalIdle
    /\ StartIdle

\* Load(path), the path holding the bytes of file
DocLoad(path, file) ==
    /\ Len(heap) < MaxDocs
    /\ polPath' = path
    /\ polFile' = file
    /\ loadData' = file
    /\ loadRes' = policyLoad(path, file)
    /\ loadSaved' = NoPolicy
    /\ loadAt' = savePc
    /\ IF policyLoad(path, file).err = PolNil
       THEN \E d \in policyLoad(path, file).doc :
               /\ heap' = loadAllocate(heap, d)
               /\ snap' = Append(snap, d)
       ELSE UNCHANGED <<heap, snap>>
    /\ UNCHANGED <<savePc, saveDoc, saveErr, savePrior>>
    /\ UNCHANGED validatorVars
    /\ UNCHANGED notDocs

\* Save(heap[i], path), to the end: written, or failed after the open
DocSave(i, path, ok) ==
    /\ i \in DOMAIN heap
    /\ heap[i] \notin CharacterDocs \ {ZeroPolicy}
    /\ polPath' = path
    /\ savePrior' = polFile
    /\ saveDoc' = heap[i]
    /\ polFile' = IF ok THEN saveMarshal(policyExt(path), heap[i]) ELSE EmptyBytes
    /\ saveErr' = IF ok THEN PolNil ELSE PolErr(ErrWritePolicy)
    /\ savePc' = "done"
    /\ heap' = [heap EXCEPT ![i] = policyAfterSave(policyExt(path), heap[i])]
    /\ UNCHANGED <<snap, loadRes, loadData, loadSaved, loadAt>>
    /\ UNCHANGED validatorVars
    /\ UNCHANGED notDocs

\* Validate(heap[i]): the result is a new value
DocValidate(i) ==
    /\ i \in DOMAIN heap
    /\ heap[i] \in CharacterDocs
    /\ vcall' = [fn |-> "ValidateDoc", arg |-> i, out |-> Validate(heap[i])]
    /\ UNCHANGED <<result, added>>
    /\ UNCHANGED policyVars
    /\ UNCHANGED docVars
    /\ UNCHANGED notDocs

DocsNext ==
    \/ \E path \in DocPaths, file \in DocFiles : DocLoad(path, file)
    \/ \E i \in 1 .. MaxDocs, path \in DocPaths, ok \in BOOLEAN : DocSave(i, path, ok)
    \/ \E i \in 1 .. MaxDocs : DocValidate(i)

SpecDocs == DocsInitState /\ [][DocsNext]_vars

(***************************************************************************)
(* Vocabulary of the properties.                                           *)
(***************************************************************************)
Enforcing == {AuthModePermissive, AuthModeStrict}
Started(c) == pc[c] # "idle"
Done(c) == pc[c] = "done"
\* the principal the caller of check c presented
CallerPrincipal(c) == extractPrincipalFromContext(ctx[c])
Outcomes == {RetNil, RetPermissionDenied, RetIAMUnavailable}

\* the decision table of the permission check, first match wins
DecisionTable(mode, p, a, e) ==
    IF mode = AuthModeOff THEN RetNil
    ELSE IF p = "" THEN RetPermissionDenied
    ELSE IF e # ErrNil
         THEN IF mode = AuthModePermissive THEN RetNil ELSE RetIAMUnavailable
    ELSE IF a THEN RetNil ELSE RetPermissionDenied

(***************************************************************************)
(* C1: in mode off every permission check, whatever the principal, the     *)
(* resource, the permission and the state of the authority, returns nil    *)
(* (Allow) at once and never calls CheckPermission on the authority.       *)
(***************************************************************************)
C1_OffAllowsUnconsulted ==
    \A c \in Calls :
        (Started(c) /\ iamMode = AuthModeOff) =>
            /\ Done(c)
            /\ ret[c] = RetNil
            /\ invoked[c] = 0
            /\ request[c] = NoRequest

C1_Witness ==
    \E c \in Calls :
        /\ Done(c) /\ iamMode = AuthModeOff /\ ~iamUp
        /\ CallerPrincipal(c) = "" /\ ret[c] = RetNil

(***************************************************************************)
(* C2: in mode permissive or strict a check whose caller presented no      *)
(* principal ends in a denial and never calls CheckPermission.             *)
(***************************************************************************)
C2_EmptyPrincipalDeniedUnconsulted ==
    \A c \in Calls :
        (Started(c) /\ iamMode \in Enforcing /\ CallerPrincipal(c) = "") =>
            /\ invoked[c] = 0
            /\ Done(c) => ret[c] # RetNil

C6_UnavailableOnlyStrictWithPrincipal ==
    \A c \in Calls :
        (Done(c) /\ ret[c] = RetIAMUnavailable) =>
            /\ iamMode = AuthModeStrict
            /\ CallerPrincipal(c) # ""
            /\ isConnectivityError(err[c])

(***************************************************************************)
(* C7: every check returns one of nil, "Permission denied" and "IAM        *)
(* unavailable"; an error of the authority client is never returned as it  *)
(* came.                                                                   *)
(***************************************************************************)
C7_NoRawError ==
    \A c \in Calls : Done(c) => ret[c] \in Outcomes

C9_OneCallOnlyWithPrincipal ==
    \A c \in Calls :
        /\ invoked[c] <= 1
        /\ Started(c) =>
              invoked[c] = IF iamMode \in Enforcing /\ CallerPrincipal(c) # ""
                           THEN 1 ELSE 0

(***************************************************************************)
(* C10: of checks running concurrently, each returns the decision table's  *)
(* outcome for its own mode, principal and authority result, and two       *)
(* checks with the same inputs and the same authority result return the    *)
(* same value.                                                             *)
(***************************************************************************)
C10_EachCheckFollowsTable ==
    /\ \A c \in Calls :
          Done(c) =>
              ret[c] = DecisionTable(iamMode, CallerPrincipal(c),
                                     allowed[c], err[c])
    /\ \A c, d \in Calls :
          ( /\ Done(c) /\ Done(d) /\ ctx[c].md = ctx[d].md
            /\ allowed[c] = allowed[d] /\ err[c] = err[d] ) =>
              ret[c] = ret[d]

(***************************************************************************)
(* Vocabulary of the configuration properties.                             *)
(***************************************************************************)
LegalModes == {"off", "permissive", "strict"}
Loaded == cliPc = "loaded"
\* no flag, environment variable or config file sets the mode
ModeNowhereSet ==
    ~Has(viperFlags, KeyIAMMode) /\ ~EnvHas(KeyIAMMode) /\ ~Has(viperConfig, KeyIAMMode)

(***************************************************************************)
(* C11: when the resolved IAM mode is not exactly off, permissive or       *)
(* strict, Validate returns an error and config.Load returns that error    *)
(* and no Config; every Config that Load hands out has a legal mode.       *)
(***************************************************************************)
C11_IllegalModeRejectedAtLoad ==
    Loaded =>
        /\ resolvedConfig.IAMMode \notin LegalModes =>
              /\ ConfigValidate(resolvedConfig) = ErrInvalidMode
              /\ loaded.err = ErrInvalidMode
              /\ loaded.cfg = NoConfig
        /\ \A c \in loaded.cfg : c.IAMMode \in LegalModes
        /\ loaded.cfg = NoConfig <=> loaded.err # ErrNil

C11_Witness ==
    /\ Loaded
    /\ resolvedConfig.IAMMode = "OFF"
    /\ ~PortOutOfRange(resolvedConfig.Ports.IAM)
    /\ loaded.err = ErrInvalidMode /\ loaded.cfg = NoConfig

(***************************************************************************)
(* C12: when no flag, environment variable or config file sets the mode,   *)
(* the Config that config.Load resolves has mode off.                      *)
(***************************************************************************)
C12_DefaultModeOff ==
    (Loaded /\ ModeNowhereSet) => resolvedConfig.IAMMode = "off"

(***************************************************************************)
(* Vocabulary of the policy file properties.                               *)
(***************************************************************************)
JsonPaths == {PathJson, PathJsonUpper}
YamlPaths == {PathYaml, PathYmlMixed}
UnknownExtPaths == {PathTxt, PathNoExt, PathDotInDir}
LoadReturned == loadRes # NoLoad
LoadFailed == loadRes.err # PolNil
\* the bytes cannot be decoded into the policy schema in the format of the path
Undecodable(path, data) ==
    IF path \in JsonPaths THEN jsonUnmarshal(data).failed
    ELSE yamlUnmarshal(data).failed

(***************************************************************************)
(* C13: Load returns either a document or an error, never both and never   *)
(* neither; when the file cannot be read, or its bytes cannot be decoded   *)
(* in the format of the path, Load returns an error and no document.       *)
(***************************************************************************)
C13_LoadErrorWithoutDocument ==
    LoadReturned =>
        /\ LoadFailed <=> loadRes.doc = NoPolicy
        /\ (loadData = Missing \/ Undecodable(polPath, loadData)) =>
              LoadFailed /\ loadRes.doc = NoPolicy

\* a file whose groups and projects decode and whose roles do not
C13_Witness ==
    /\ LoadReturned
    /\ loadData = YamlBadRoles(TestPolicy)
    /\ yamlUnmarshal(loadData).policy # ZeroPolicy
    /\ LoadFailed /\ loadRes.doc = NoPolicy

\* the strings of a document
Range(q) == {q[i] : i \in DOMAIN q}
StringsOfLists(m) == DOMAIN m \cup UNION {Range(m[k]) : k \in DOMAIN m}
StringsOfBinding(b) ==
    {b.Role} \cup Range(b.Members)
    \cup UNION {{c.Expression, c.Title, c.Description} : c \in b.Condition}
StringsOfProjects(m) ==
    DOMAIN m \cup UNION {StringsOfBinding(b) : b \in UNION {Range(m[k]) : k \in DOMAIN m}}
StringsOf(d) ==
    StringsOfLists(d.Roles) \cup StringsOfLists(d.Groups)
    \cup StringsOfProjects(d.Projects)
ValidUTF8(d) == BadUTF8 \notin StringsOf(d)

\* the format each of Save and Load selects for a path
SaveFormat(path) == saveMarshal(policyExt(path), ZeroPolicy).kind
LoadFormat(path) ==
    IF loadDecode(policyExt(path), Missing).err.msg = ErrParseJSON
    THEN "json" ELSE "yaml"
\* this Load followed a Save to the same path that returned nil
LoadedAfterSave == LoadReturned /\ loadSaved # NoPolicy

FileHoldsSaved ==
    /\ polFile.kind = SaveFormat(polPath)
    /\ polFile.sections = FullText
    /\ polFile.tree = encPolicy(polFile.kind, saveDoc)
SaveReturned == savePc = "done"
SaveInProgress == savePc \in {"marshalled", "opened"}

(***************************************************************************)
(* C15: Save is all-or-nothing: when it returns nil the path holds the     *)
(* whole encoded document; while it has not returned, or when it returns   *)
(* an error, the path holds what it held before the call, never a          *)
(* truncated or partly written file.                                       *)
(***************************************************************************)
C15_SaveAllOrNothing ==
    /\ (SaveReturned /\ saveErr = PolNil) => FileHoldsSaved
    /\ (SaveReturned /\ saveErr # PolNil) => polFile = savePrior
    /\ SaveInProgress => (polFile = savePrior \/ FileHoldsSaved)

ExtTxt == <<".", "t", "x", "t">>
\* the extension of each path without a known one, in lower case
UnknownExtOf(path) == IF path = PathTxt THEN ExtTxt ELSE <<>>
\* what Load returns when it decodes with dec and wraps a failure in e
LoadOutcome(dec, e) ==
    IF dec.failed THEN [doc |-> NoPolicy, err |-> e]
    ELSE [doc |-> {dec.policy}, err |-> PolNil]

(***************************************************************************)
(* C16: the format is selected from the extension of the path alone,       *)
(* whatever its case: .json is JSON, .yaml and .yml are YAML, any other or *)
(* no extension is YAML; a .json file is never parsed as YAML; and when    *)
(* the bytes of a file without a known extension fail to decode, the error *)
(* names the extension.                                                    *)
(***************************************************************************)
C16_FormatByExtension ==
    /\ (LoadReturned /\ loadData # Missing) =>
          /\ polPath \in JsonPaths =>
                loadRes = LoadOutcome(jsonUnmarshal(loadData), PolErr(ErrParseJSON))
          /\ polPath \in YamlPaths =>
                loadRes = LoadOutcome(yamlUnmarshal(loadData), PolErr(ErrParseYAML))
          /\ polPath \in UnknownExtPaths =>
                loadRes = LoadOutcome(yamlUnmarshal(loadData),
                                      [msg |-> ErrParseUnknown,
                                       ext |-> UnknownExtOf(polPath)])
          /\ ( /\ polPath \in JsonPaths
               /\ jsonUnmarshal(loadData).failed
               /\ ~yamlUnmarshal(loadData).failed ) => LoadFailed
    /\ (SaveReturned /\ saveErr = PolNil) =>
          polFile.kind = IF polPath \in JsonPaths THEN "json" ELSE "yaml"

C16_Witness ==
    /\ LoadReturned
    /\ polPath = PathTxt
    /\ loadData = YamlBadRoles(TestPolicy)
    /\ loadRes.err = [msg |-> ErrParseUnknown, ext |-> ExtTxt]
    /\ loadRes.doc = NoPolicy

(***************************************************************************)
(* Vocabulary of the validator properties.                                 *)
(***************************************************************************)
Called(fn) == vcall.fn = fn
One(b) == IF b THEN 1 ELSE 0
\* the number of defects of the document with the defects t
DefectCount(t) ==
    t.badPermissions + One(t.badRoleName) + One(t.undefinedRole)
    + One(t.badMember) + One(t.undefinedGroup) + One(t.emptyExpression)
\* the number of errors of one kind
CountOf(errors, what) == Cardinality({i \in DOMAIN errors : errors[i].msg = what})
AllDefects ==
    [badPermissions |-> 2, badRoleName |-> TRUE, undefinedRole |-> TRUE,
     badMember |-> TRUE, undefinedGroup |-> TRUE, emptyExpression |-> TRUE]

(***************************************************************************)
(* C17: one call of Validate on a document with k independent defects, of  *)
(* any combination of kinds, returns Valid = false exactly when k > 0 and  *)
(* one error per defect: no defect hides another.                          *)
(***************************************************************************)
C17_ValidateAccumulates ==
    Called("Validate") =>
        LET t == vcall.defects
            errors == vcall.out.Errors
        IN  /\ vcall.out.Valid <=> DefectCount(t) = 0
            /\ Len(errors) = DefectCount(t)
            /\ CountOf(errors, ErrPermissionFormat) = t.badPermissions
            /\ CountOf(errors, ErrRoleName) = One(t.badRoleName)
            /\ CountOf(errors, ErrUndefinedRole) = One(t.undefinedRole)
            /\ CountOf(errors, ErrMemberFormat) = One(t.badMember)
            /\ CountOf(errors, ErrUndefinedGroup) = One(t.undefinedGroup)
            /\ CountOf(errors, ErrEmptyExpression) = One(t.emptyExpression)

C17_Witness ==
    /\ Called("Validate")
    /\ vcall.defects = AllDefects
    /\ ~vcall.out.Valid
    /\ Len(vcall.out.Errors) = 7

(***************************************************************************)
(* C18: in every state of a ValidationResult reached from a fresh one by   *)
(* addError calls, Valid holds exactly when Errors is empty; each addError *)
(* appends its message at the end of Errors and keeps the earlier ones in  *)
(* order; and Valid, once false, stays false.                              *)
(***************************************************************************)
C18_ValidIffNoErrors ==
    /\ [](result.Valid <=> result.Errors = <<>>)
    /\ [](result.Errors = added)
    /\ [][ /\ ~result.Valid => ~result'.Valid
           /\ added' # added =>
                 /\ Len(added') = Len(added) + 1
                 /\ result'.Errors = Append(result.Errors, added'[Len(added')]) ]_vars

C18_Witness ==
    /\ ~result.Valid
    /\ Len(result.Errors) >= 2
    /\ result.Errors[1] # result.Errors[2]
    /\ result.Errors = added

\* no dot at either end, no two dots in a row, at least two dots, and no
\* star standing alone between dots or ends
PermissionWellFormed(p) ==
    /\ Cardinality({i \in DOMAIN p : p[i] = "."}) >= 2
    /\ p[1] # "." /\ p[Len(p)] # "."
    /\ \A i \in 1 .. (Len(p) - 1) : ~(p[i] = "." /\ p[i + 1] = ".")
    /\ \A i \in DOMAIN p :
          p[i] = "*" => ~( /\ (i = 1 \/ p[i - 1] = ".")
                           /\ (i = Len(p) \/ p[i + 1] = ".") )

(***************************************************************************)
(* C19: validatePermission accepts a string exactly when its split on '.'  *)
(* has at least three segments, none empty and none equal to '*'.          *)
(***************************************************************************)
C19_PermissionFormat ==
    Called("validatePermission") =>
        (vcall.out = ErrNil <=> PermissionWellFormed(vcall.arg))

C19_Witness ==
    /\ Called("validatePermission")
    /\ vcall.arg = <<"a", ".", "a", "*", ".", "*", "a">>
    /\ vcall.out = ErrNil

\* roles/ followed by at least one character
RoleNameWellFormed(name) ==
    \E k \in 1 .. Len(name) :
        name = RolesPrefix \o SubSeq(name, Len(name) - k + 1, Len(name))

(***************************************************************************)
(* C20: a role name is valid exactly when it is roles/ followed by at      *)
(* least one character; Validate reports an error for a key of Roles that  *)
(* is not, and none for the role names that are.                           *)
(***************************************************************************)
C20_RoleNameFormat ==
    /\ Called("validateRoleName") =>
          (vcall.out = ErrNil <=> RoleNameWellFormed(vcall.arg))
    /\ Called("Validate") =>
          \A name \in DOMAIN vcall.arg.Roles :
              ~RoleNameWellFormed(name) <=>
                  \E i \in DOMAIN vcall.out.Errors :
                      vcall.out.Errors[i] = Msg(ErrRoleName, name)

C20_Witness ==
    /\ Called("validateRoleName")
    /\ vcall.arg = RolesPrefix
    /\ vcall.out = ErrRoleName

\* the bindings of a document, and the errors Validate returned for it
BindingsOf(d) == UNION {Range(d.Projects[k]) : k \in DOMAIN d.Projects}
StartsWith(str, prefix) ==
    Len(str) >= Len(prefix) /\ SubSeq(str, 1, Len(prefix)) = prefix
ErrorsAbout(what, about) ==
    {i \in DOMAIN vcall.out.Errors : vcall.out.Errors[i] = Msg(what, about)}

(***************************************************************************)
(* C21: for every binding, a role that starts with roles/custom. gets an   *)
(* undefined-role error exactly when it is no key of Roles, and a role     *)
(* that does not start with roles/custom. never gets one, defined or not.  *)
(***************************************************************************)
C21_CustomRolesMustBeDefined ==
    Called("ValidateBindings") =>
        LET d == vcall.arg
        IN  /\ \A b \in BindingsOf(d) :
                  IF StartsWith(b.Role, CustomPrefix)
                  THEN ErrorsAbout(ErrUndefinedRole, b.Role) # {}
                           <=> b.Role \notin DOMAIN d.Roles
                  ELSE ErrorsAbout(ErrUndefinedRole, b.Role) = {}
            /\ CountOf(vcall.out.Errors, ErrUndefinedRole) =
                  Cardinality({k \in DOMAIN d.Projects :
                      /\ StartsWith(d.Projects[k][1].Role, CustomPrefix)
                      /\ d.Projects[k][1].Role \notin DOMAIN d.Roles})

\* one binding of an undefined custom role, one of an undefined built-in role
C21_Witness ==
    /\ Called("ValidateBindings")
    /\ {b.Role : b \in BindingsOf(vcall.arg)} = {RoleCustomU, RoleOwner}
    /\ DOMAIN vcall.arg.Roles = {RoleCustomD}
    /\ CountOf(vcall.out.Errors, ErrUndefinedRole) = 1
    /\ ErrorsAbout(ErrUndefinedRole, RoleCustomU) # {}

\* the grammar of a member: its form, and the group a group: member names
MemberFormOK(m) ==
    \/ m \in {AllUsers, AllAuthenticatedUsers}
    \/ StartsWith(m, UserPrefix) /\ Len(m) > Len(UserPrefix)
    \/ StartsWith(m, ServiceAccountPrefix) /\ Len(m) > Len(ServiceAccountPrefix)
    \/ StartsWith(m, GroupPrefix)
GroupNamed(m) == SubSeq(m, Len(GroupPrefix) + 1, Len(m))
\* the member has a defect: a bad form, or a group that is not defined
MemberDefect(m, d) ==
    \/ ~MemberFormOK(m)
    \/ StartsWith(m, GroupPrefix) /\ GroupNamed(m) \notin DOMAIN d.Groups
\* the member strings of a document, with their places
MemberPlaces(d) ==
    {<<"group", k, i>> : k \in DOMAIN d.Groups, i \in 1 .. 2}
    \cup {<<"binding", k, i>> : k \in DOMAIN d.Projects, i \in 1 .. 2}
MemberAt(d, place) ==
    IF place[1] = "group"
    THEN IF place[3] \in DOMAIN d.Groups[place[2]]
         THEN {d.Groups[place[2]][place[3]]} ELSE {}
    ELSE IF place[3] \in DOMAIN d.Projects[place[2]][1].Members
         THEN {d.Projects[place[2]][1].Members[place[3]]} ELSE {}
MembersOf(d) == UNION {MemberAt(d, place) : place \in MemberPlaces(d)}

(***************************************************************************)
(* C22: every member of every group and of every binding is checked: a     *)
(* member gets a format error unless it is user:<non-empty>,               *)
(* serviceAccount:<non-empty>, group:<name>, allUsers or                   *)
(* allAuthenticatedUsers, and a member group:<name> gets an undefined      *)
(* group error exactly when <name> is no key of Groups.                    *)
(***************************************************************************)
C22_MembersChecked ==
    Called("ValidateMembers") =>
        LET d == vcall.arg
        IN  /\ \A m \in MembersOf(d) :
                  /\ ErrorsAbout(ErrMemberFormat, m) # {} <=> ~MemberFormOK(m)
                  /\ ErrorsAbout(ErrUndefinedGroup, m) # {} <=>
                        ( /\ StartsWith(m, GroupPrefix)
                          /\ GroupNamed(m) \notin DOMAIN d.Groups )
            /\ Len(vcall.out.Errors) =
                  Cardinality({place \in MemberPlaces(d) :
                      \E m \in MemberAt(d, place) : MemberDefect(m, d)})

\* a group inside a group that is not defined, and a bad member of a binding
C22_Witness ==
    /\ Called("ValidateMembers")
    /\ vcall.arg.Groups[GroupH] = <<GroupPrefix \o GroupG>>
    /\ GroupG \notin DOMAIN vcall.arg.Groups
    /\ ErrorsAbout(ErrUndefinedGroup, GroupPrefix \o GroupG) # {}
    /\ ErrorsAbout(ErrMemberFormat, <<"b", "o", "b">>) # {}
    /\ Len(vcall.out.Errors) = 2

\* the member check of Validate accepts the form of the string
MemberCheckAcceptsForm == \A i \in DOMAIN vcall.member : vcall.member[i].msg # ErrMemberFormat
\* how many of user:, serviceAccount: and group: the string starts with
PrefixCount(str) ==
    Cardinality({prefix \in {UserPrefix, ServiceAccountPrefix, GroupPrefix} :
                    StartsWith(str, prefix)})

IsPrincipalKey(key) == key \in {KeyPrincipal, KeyPrincipalHeader}
InjectedBefore(n) == {i \in 1 .. n : IsPrincipalKey(outgoing[i][1])}
\* the carrier sent is the one the sender holds
SentCurrent == sent = {mdOf(outgoing)}

(***************************************************************************)
(* C24: the principal the receiver extracts is the one that was injected   *)
(* last into the carrier, unchanged, under any letter case of the key; it  *)
(* is the empty string when the carrier has no principal key.              *)
(***************************************************************************)
C24_PropagationTransparent ==
    (extracted # NotExtracted /\ SentCurrent) =>
        LET n == Len(outgoing)
        IN  IF InjectedBefore(n) = {} THEN extracted = {""}
            ELSE \E i \in InjectedBefore(n) :
                    /\ \A j \in InjectedBefore(n) : j <= i
                    /\ extracted = {outgoing[i][2]}

\* the three ports of a Config
PortsOf(c) == {c.Ports.IAM, c.Ports.SecretManager, c.Ports.KMS}

(***************************************************************************)
(* C25: a document whose Roles, Groups and Projects are all empty or       *)
(* absent is never reported valid: when such a document comes out of Load  *)
(* and is validated, the result is not Valid.                              *)
(***************************************************************************)
C25_EmptyDocumentNeverValid ==
    (vcall.fn = "ValidateLoaded" /\ EmptyDocument(vcall.arg)) =>
        ~vcall.out.Valid

(***************************************************************************)
(* C26: Validate returns nil exactly when the mode is off, permissive or   *)
(* strict and each of the three ports is in 1..65535; a port that is 0,    *)
(* negative or above 65535 is rejected whichever of the three it is; and   *)
(* the Config that Load hands out is the one that was validated.           *)
(***************************************************************************)
C26_ValidateModeAndPorts ==
    Loaded =>
        LET c == resolvedConfig
        IN  /\ ConfigValidate(c) = ErrNil <=>
                  ( /\ c.IAMMode \in LegalModes
                    /\ \A port \in PortsOf(c) : port \in 1 .. 65535 )
            /\ (c.IAMMode \in LegalModes /\ c.Ports.IAM \notin 1 .. 65535) =>
                  loaded.err = ErrInvalidIAMPort
            /\ ( /\ c.IAMMode \in LegalModes
                 /\ c.Ports.IAM \in 1 .. 65535
                 /\ c.Ports.SecretManager \notin 1 .. 65535 ) =>
                  loaded.err = ErrInvalidSecretManagerPort
            /\ ( /\ c.IAMMode \in LegalModes
                 /\ c.Ports.IAM \in 1 .. 65535
                 /\ c.Ports.SecretManager \in 1 .. 65535
                 /\ c.Ports.KMS \notin 1 .. 65535 ) =>
                  loaded.err = ErrInvalidKMSPort
            /\ loaded.cfg \subseteq {c}

\* only the last port checked is out of range: port 0 for KMS
C26_Witness ==
    /\ Loaded
    /\ resolvedConfig.IAMMode = "strict"
    /\ resolvedConfig.Ports.IAM = 65535
    /\ resolvedConfig.Ports.SecretManager = 1
    /\ resolvedConfig.Ports.KMS = 0
    /\ loaded.err = ErrInvalidKMSPort
    /\ loaded.cfg = NoConfig

(***************************************************************************)
(* C29: Save and Load on one path are not atomic.  A Load that reads the   *)
(* file after Save opened it and before Save wrote it reads an empty       *)
(* file, whatever the previous and the new document are: on a .json path   *)
(* it fails, on any other path it returns the empty document.              *)
(***************************************************************************)
C29_LoadDuringSaveReadsEmpty ==
    (LoadReturned /\ loadAt = "opened") =>
        /\ loadData = EmptyBytes
        /\ policyExt(polPath) = ExtJson =>
              (LoadFailed /\ loadRes.doc = NoPolicy)
        /\ policyExt(polPath) # ExtJson =>
              (~LoadFailed /\ loadRes.doc = {ZeroPolicy})

\* Save of one document over another is still in progress and Load has
\* returned a document equal to neither
C29_Witness ==
    /\ savePc = "opened"
    /\ loadAt = "opened"
    /\ savePrior = YamlText(TestPolicy)
    /\ saveDoc = OrderedPolicy
    /\ loadRes.err = PolNil
    /\ loadRes.doc \cap {TestPolicy, OrderedPolicy} = {}
    /\ loadRes.doc # NoPolicy

\* the commands docker-compose was run with, in order
Cmds == [i \in DOMAIN docker |-> docker[i].cmd]
LastInvocation == docker[Len(docker)]
LoadSucceeded == Loaded /\ loaded.err = ErrNil

(***************************************************************************)
(* C27: the start command runs its steps in a fixed order.  When           *)
(* config.Load fails the error is returned and docker-compose is not run;  *)
(* pull is run only when PullOnStart is set, before up, and its failure    *)
(* is only a warning; the command returns after up, with the up failure    *)
(* as its error, and success is printed only when up succeeded.            *)
(***************************************************************************)
C27_StartOrder ==
    /\ (docker # <<>> \/ startPc # "idle") => Loaded
    /\ startOut.returned <=> startPc = "done"
    /\ (Loaded /\ loaded.err # ErrNil) =>
          /\ docker = <<>>
          /\ ~startOut.success /\ ~startOut.warned
          /\ startOut.returned => startOut.err = loaded.err
    /\ Cmds \in {<<>>, <<"pull">>, <<"up">>, <<"pull", "up">>}
    /\ Cmds # <<>> =>
          \E cfg \in loaded.cfg : cfg.PullOnStart <=> Cmds[1] = "pull"
    /\ startOut.warned <=>
          \E i \in DOMAIN docker : docker[i].cmd = "pull" /\ ~docker[i].ok
    /\ (startOut.returned /\ LoadSucceeded) =>
          /\ LastInvocation.cmd = "up"
          /\ startOut.success = LastInvocation.ok
          /\ startOut.err = IF LastInvocation.ok THEN ErrNil ELSE ErrUpFailed
    /\ startOut.success => (startOut.returned /\ LoadSucceeded)

\* the pull failed, the warning was printed, up ran and succeeded
C27_Witness ==
    /\ Len(docker) = 2
    /\ docker[1].cmd = "pull" /\ ~docker[1].ok
    /\ docker[2].cmd = "up" /\ docker[2].ok
    /\ startOut.warned
    /\ startOut.success
    /\ startOut.err = ErrNil

\* strconv.Atoi of an environment value; -1 when it is no number
RECURSIVE parseDigits(_)
parseDigits(q) ==
    IF q = <<>> THEN 0
    ELSE LET last == q[Len(q)]
             k == CHOOSE d \in 0 .. 9 : DigitChars[d + 1] = last
         IN  10 * parseDigits(SubSeq(q, 1, Len(q) - 1)) + k
parsePort(q) ==
    IF q \in Seq({DigitChars[d] : d \in 1 .. 10}) /\ q # <<>>
    THEN parseDigits(q) ELSE -1
UpInvocations == {i \in DOMAIN docker : docker[i].cmd = "up"}

(***************************************************************************)
(* C28: whenever docker-compose up is run, the Config it is run with       *)
(* passed Validate, the IAM_MODE the child process sees is the resolved    *)
(* mode of that Config and one of off, permissive, strict, and the three   *)
(* ports it sees are those of the Config and in 1..65535.                  *)
(***************************************************************************)
C28_StartExportsValidatedConfig ==
    \A i \in UpInvocations :
        /\ loaded.cfg = {resolvedConfig}
        /\ ConfigValidate(resolvedConfig) = ErrNil
        /\ envLookup(docker[i].env, "IAM_MODE") = resolvedConfig.IAMMode
        /\ envLookup(docker[i].env, "IAM_MODE") \in {"off", "permissive", "strict"}
        /\ parsePort(envLookup(docker[i].env, "IAM_PORT")) = resolvedConfig.Ports.IAM
        /\ parsePort(envLookup(docker[i].env, "SECRET_MANAGER_PORT"))
              = resolvedConfig.Ports.SecretManager
        /\ parsePort(envLookup(docker[i].env, "KMS_PORT")) = resolvedConfig.Ports.KMS
        /\ \A name \in {"IAM_PORT", "SECRET_MANAGER_PORT", "KMS_PORT"} :
              parsePort(envLookup(docker[i].env, name)) \in 1 .. 65535

\* up is run in a process that inherited another IAM_MODE and KMS_PORT
C28_Witness ==
    \E i \in UpInvocations :
        /\ Len(docker[i].env) > 4
        /\ docker[i].env[1] = <<"IAM_MODE", "bogus">>
        /\ envLookup(docker[i].env, "IAM_MODE") = "strict"
        /\ parsePort(envLookup(docker[i].env, "KMS_PORT")) = 65535
        /\ parsePort(envLookup(docker[i].env, "IAM_PORT")) = 8080
        /\ docker[i].ok

(***************************************************************************)
(* C30: a loaded document is never mutated.  Every object Load returned    *)
(* holds the content it was returned with, after any Save and Validate of  *)
(* it, successful or failed, and after any later Load.                     *)
(***************************************************************************)
C30_LoadedDocumentImmutable ==
    /\ Len(heap) = Len(snap)
    /\ \A i \in DOMAIN heap : heap[i] = snap[i]

\* two documents were loaded; the first was saved as JSON, which wrote other
\* strings than it holds, the second was validated and found invalid
C30_Witness ==
    /\ Len(heap) = 2
    /\ heap[1] = BadBytesPolicy
    /\ heap[2] = DefectiveDoc
    /\ savePc = "done" /\ saveErr = PolNil /\ saveDoc = heap[1]
    /\ polFile.kind = "json" /\ polFile.tree # heap[1]
    /\ vcall.fn = "ValidateDoc" /\ vcall.arg = 2 /\ ~vcall.out.Valid

====
